---- MODULE Spec2Model ----
(***************************************************************************)
(* FAB spending chart of fp-chopped (js/fabSpendingView.js): the timeline  *)
(* reconstructor computeFABTimeline, the data it reads from the cache, and  *)
(* the view built on the reconstructed timelines.                           *)
(*                                                                          *)
(* Conventions                                                              *)
(*  - A JS object is a record; an optional property is a field that may be  *)
(*    missing from the record's DOMAIN (Has).                               *)
(*  - A Map of the cache is a function whose DOMAIN is the set of keys set. *)
(*  - Time is counted in days instead of milliseconds (1 day = 86400000 ms) *)
(*    so that the season epoch fits the checker's integers; every           *)
(*    timestamp of the model is a whole number of days.                     *)
(*  - weekProgress, a fraction in [0,1], is kept as its numerator over      *)
(*    weekDurationMs, so week + weekProgress is                             *)
(*    (week * weekDurationMs + weekProgress) / weekDurationMs.              *)
(*  - null (eliminatedWeek) is 0: the code only tests it for truthiness.    *)
(***************************************************************************)
EXTENDS Integers, Sequences, FiniteSets, TLC

VARIABLES
  cache,                     \* cache.leagues, cache.rosters, cache.transactions
  baseTimelines,             \* all team timelines from all leagues
  container,                 \* what #fab-spending-content shows
  chart,                     \* the svg last rendered
  currentFilter,             \* 'both' or a league id
  currentTeamStatusFilter,   \* 'all', 'remaining' or 'chopped'
  isAnimating, isPaused,
  animationFrameId,          \* handle of the last frame requested, or null
  pausedProgress, currentAnimationProgress,
  hoveredTeamIndex, staticMaxWeek, teamColorMap,
  frames,                    \* the host's pending animation frame callbacks
  now,                       \* Date.now()
  lastOp,                    \* history: the handler that ran last
  extendSteps,               \* history: extend passes run by that handler
  callArgs,                  \* a call of a function of the module: its arguments
  callResult                 \* and what it returned

viewVars == <<baseTimelines, container, chart, currentFilter, currentTeamStatusFilter,
              isAnimating, isPaused, animationFrameId, pausedProgress,
              currentAnimationProgress, hoveredTeamIndex, staticMaxWeek, teamColorMap,
              frames, extendSteps>>
callVars == <<callArgs, callResult>>
vars == <<cache, viewVars, now, lastOp, callVars>>

(***************************************************************************)
(* Bounds of the model.                                                    *)
(***************************************************************************)
MaxWeek    == 2     \* state.currentWeek: the weeks fetched
MaxTx      == 2     \* transactions returned for a league over all weeks
MaxCap     == 3     \* the league's waiver_budget when it is set
MaxNow     == 5     \* how far the clock runs
MaxPoints  == 3     \* points of a list given to createSmoothPath

(***************************************************************************)
(* Program constants.                                                      *)
(***************************************************************************)
LEAGUE_IDS == <<"1262120211746656256", "1262120355430928384">>
seasonStartMs  == 19614   \* 1694649600000 ms, in days
weekDurationMs == 7       \* 7 * 24 * 60 * 60 * 1000 ms, in days
Null == 0
REPLAY_DURATION_MS == 4   \* 15000 ms, in units of 3750 ms
CHART_COLORS_length == 15

Has(obj, f) == f \in DOMAIN obj
Max(a, b) == IF a >= b THEN a ELSE b
Min(a, b) == IF a <= b THEN a ELSE b

(***************************************************************************)
(* The upstream data: what api.league, api.rosters and api.transactions    *)
(* can return.                                                             *)
(***************************************************************************)
RosterIds == {1, 2}
Bids == {1, 2}

Leagues ==
  {[name |-> "league"],
   [name |-> "league", settings |-> [type |-> 0]]}
  \cup {[name |-> "league", settings |-> [type |-> 0, waiver_budget |-> c]] : c \in {MaxCap}}

RosterSettings ==
  {[waiver_budget_used |-> 1]}
  \cup {[waiver_budget_used |-> 0, eliminated |-> e] : e \in {Null, 1}}

rosterEntry(i, s) ==
  IF s = {} THEN [roster_id |-> i]
  ELSE [roster_id |-> i, settings |-> CHOOSE x \in s : TRUE]

\* What a roster entry carries: no settings, or one of RosterSettings; the
\* entries after the first id are without settings or eliminated.
settingsChoices(i) ==
  IF i = 1 THEN {{}} \cup {{x} : x \in RosterSettings}
  ELSE {{}, {[waiver_budget_used |-> 0, eliminated |-> 1]}}

\* The rosters of a league, listed in ascending roster_id over a subset of
\* RosterIds.
RECURSIVE rosterListsOver(_)
rosterListsOver(ids) ==
  IF ids = {} THEN {<<>>}
  ELSE LET m == CHOOSE k \in ids : \A j \in ids : j <= k
           shorter == rosterListsOver(ids \ {m})
       IN shorter \cup
          {Append(l, rosterEntry(m, s)) : l \in shorter, s \in settingsChoices(m)}

RosterLists == rosterListsOver(RosterIds)

\* A transaction as api.transactions returns it (before _week is attached).
TxShapes ==
  {[type |-> "waiver", status |-> "complete", roster_ids |-> <<1>>,
    status_updated |-> seasonStartMs + 1, settings |-> [waiver_bid |-> b]] : b \in Bids}
  \cup
  {[type |-> "waiver", status |-> "complete", roster_ids |-> <<1>>,
    created |-> seasonStartMs + 5, settings |-> [waiver_bid |-> 1]],
   [type |-> "waiver", status |-> "complete", roster_ids |-> <<2>>,
    status_updated |-> seasonStartMs + 1, settings |-> [waiver_bid |-> 1]],
   [type |-> "waiver", status |-> "complete", roster_ids |-> <<1>>],
   [type |-> "waiver", status |-> "complete", roster_ids |-> <<>>,
    status_updated |-> seasonStartMs + 1, settings |-> [waiver_bid |-> 1]],
   [type |-> "waiver", status |-> "failed", roster_ids |-> <<1>>,
    status_updated |-> seasonStartMs + 1, settings |-> [waiver_bid |-> 1]],
   [type |-> "free_agent", status |-> "complete", roster_ids |-> <<1>>,
    status_updated |-> seasonStartMs + 1, settings |-> [waiver_bid |-> 1]]}

withWeek(tx, wk) == [f \in DOMAIN tx \cup {"_week"} |-> IF f = "_week" THEN wk ELSE tx[f]]

(***************************************************************************)
(* computeFABTimeline                                                      *)
(***************************************************************************)
cacheGet(map, key, default) == IF Has(map, key) THEN map[key] ELSE default

\* Mutant: a missing budget defaults to a full budget instead of 0.
waiverCapOf_defaultFull(league) ==
  IF Has(league, "settings") /\ Has(league.settings, "waiver_budget")
     THEN league.settings.waiver_budget ELSE MaxCap

waiverCapOf(league) ==
  IF Has(league, "settings") /\ Has(league.settings, "waiver_budget")
     THEN league.settings.waiver_budget ELSE 0

usedFabOf(r) ==
  IF Has(r, "settings") /\ Has(r.settings, "waiver_budget_used")
     THEN r.settings.waiver_budget_used ELSE 0

\* Mutant: the origin point starts at the roster's current FAB.
initialTimeline_originAtCurrentFab(r, leagueId, waiverCap) ==
  [rosterId |-> r.roster_id,
   leagueId |-> leagueId,
   isEliminated |-> Has(r, "settings") /\ Has(r.settings, "eliminated"),
   eliminatedWeek |-> Null,
   currentFab |-> waiverCap - usedFabOf(r),
   points |-> <<[week |-> 0, weekProgress |-> 0,
                 fab |-> waiverCap - usedFabOf(r), timestamp |-> 0]>>]

\* Mutant: currentFab holds the budget used instead of the budget left.
initialTimeline_currentFabIsUsed(r, leagueId, waiverCap) ==
  [rosterId |-> r.roster_id,
   leagueId |-> leagueId,
   isEliminated |-> Has(r, "settings") /\ Has(r.settings, "eliminated"),
   eliminatedWeek |-> Null,
   currentFab |-> usedFabOf(r),
   points |-> <<[week |-> 0, weekProgress |-> 0, fab |-> waiverCap, timestamp |-> 0]>>]

initialTimeline(r, leagueId, waiverCap) ==
  [rosterId |-> r.roster_id,
   leagueId |-> leagueId,
   isEliminated |-> Has(r, "settings") /\ Has(r.settings, "eliminated"),
   eliminatedWeek |-> Null,
   currentFab |-> waiverCap - usedFabOf(r),
   points |-> <<[week |-> 0, weekProgress |-> 0, fab |-> waiverCap, timestamp |-> 0]>>]

\* timelines[rosterId] = {...}: a later roster with the same id overwrites.
initialTimelines(rosters, leagueId, waiverCap) ==
  [id \in {rosters[i].roster_id : i \in DOMAIN rosters} |->
     LET last == CHOOSE i \in DOMAIN rosters :
                   /\ rosters[i].roster_id = id
                   /\ \A j \in DOMAIN rosters : rosters[j].roster_id = id => j <= i
     IN initialTimeline(rosters[last], leagueId, waiverCap)]

\* Mutant: the type of the transaction is not tested.
isCompleteWaiver_statusOnly(tx) == tx.status = "complete"

isCompleteWaiver(tx) == tx.status = "complete" /\ tx.type = "waiver"

statusUpdatedOr0(tx) == IF Has(tx, "status_updated") THEN tx.status_updated ELSE 0

\* The comparator of the sort: negative, zero or positive.
txCompare(a, b) ==
  IF a._week # b._week THEN a._week - b._week
  ELSE statusUpdatedOr0(a) - statusUpdatedOr0(b)

\* Array.prototype.sort is stable: x goes before the first element that
\* compares greater than it.
RECURSIVE insertTx(_, _)
insertTx(sorted, x) ==
  IF sorted = <<>> THEN <<x>>
  ELSE IF txCompare(Head(sorted), x) > 0 THEN <<x>> \o sorted
  ELSE <<Head(sorted)>> \o insertTx(Tail(sorted), x)

RECURSIVE sortTx(_)
sortTx(txs) ==
  IF txs = <<>> THEN <<>>
  ELSE insertTx(sortTx(SubSeq(txs, 1, Len(txs) - 1)), txs[Len(txs)])

sortedTxOf(transactions) == sortTx(SelectSeq(transactions, isCompleteWaiver))

bidOf(tx) ==
  IF Has(tx, "settings") /\ Has(tx.settings, "waiver_bid") THEN tx.settings.waiver_bid ELSE 0

timestampOf(tx) ==
  IF Has(tx, "status_updated") /\ tx.status_updated # 0 THEN tx.status_updated
  ELSE IF Has(tx, "created") /\ tx.created # 0 THEN tx.created
  ELSE 0

weekStartMs(week) == seasonStartMs + (week - 1) * weekDurationMs

\* Mutant: the fraction is not clamped.
weekProgressOf_unclamped(week, timestamp) == timestamp - weekStartMs(week)

\* Math.max(0, Math.min(1, (timestamp - weekStartMs) / weekDurationMs)),
\* as a numerator over weekDurationMs.
weekProgressOf(week, timestamp) ==
  Max(0, Min(weekDurationMs, timestamp - weekStartMs(week)))

hasRoster(tx) == Has(tx, "roster_ids") /\ Len(tx.roster_ids) > 0

\* Mutant: the bid is added.
newFabOf_added(lastPoint, bid) == lastPoint.fab + bid

newFabOf(lastPoint, bid) == lastPoint.fab - bid

\* One iteration of sortedTx.forEach.
foldOne(timelines, tx) ==
  IF ~hasRoster(tx) THEN timelines
  ELSE LET rosterId == tx.roster_ids[1]
       IN IF rosterId \notin DOMAIN timelines THEN timelines
          ELSE LET timeline == timelines[rosterId]
                   lastPoint == timeline.points[Len(timeline.points)]
                   timestamp == timestampOf(tx)
                   point == [week |-> tx._week,
                             weekProgress |-> weekProgressOf(tx._week, timestamp),
                             fab |-> newFabOf(lastPoint, bidOf(tx)),
                             timestamp |-> timestamp]
               IN [timelines EXCEPT ![rosterId].points = Append(timeline.points, point)]

RECURSIVE foldTx(_, _)
\* Mutant: an event of an unknown roster ends the loop.
foldTx_stopAtUnknown(timelines, sortedTx) ==
  IF sortedTx = <<>> THEN timelines
  ELSE IF hasRoster(Head(sortedTx)) /\ Head(sortedTx).roster_ids[1] \notin DOMAIN timelines
       THEN timelines
  ELSE foldTx(foldOne(timelines, Head(sortedTx)), Tail(sortedTx))

foldTx(timelines, sortedTx) ==
  IF sortedTx = <<>> THEN timelines
  ELSE foldTx(foldOne(timelines, Head(sortedTx)), Tail(sortedTx))

\* "Fill in eliminated week": rosters.find returns the first roster with the id.
fillEliminatedWeek(timeline, rosters) ==
  IF ~timeline.isEliminated THEN timeline
  ELSE LET first == CHOOSE i \in DOMAIN rosters :
                      /\ rosters[i].roster_id = timeline.rosterId
                      /\ \A j \in DOMAIN rosters :
                            rosters[j].roster_id = timeline.rosterId => i <= j
           roster == rosters[first]
       IN IF Has(roster, "settings") /\ Has(roster.settings, "eliminated")
             /\ roster.settings.eliminated # Null
          THEN [timeline EXCEPT !.eliminatedWeek = roster.settings.eliminated]
          ELSE timeline

\* Object.values of an object with integer keys: ascending key order.
RECURSIVE objectValues(_)
objectValues(obj) ==
  IF DOMAIN obj = {} THEN <<>>
  ELSE LET k == CHOOSE k \in DOMAIN obj : \A j \in DOMAIN obj : k <= j
       IN <<obj[k]>> \o objectValues([j \in DOMAIN obj \ {k} |-> obj[j]])

\* The return value, threw = TRUE when league.settings is read off an
\* undefined league (TypeError).
computeFABTimeline(c, leagueId) ==
  IF ~Has(c.leagues, leagueId) THEN [threw |-> TRUE, value |-> <<>>]
  ELSE
    LET league == c.leagues[leagueId]
        rosters == cacheGet(c.rosters, leagueId, <<>>)
        transactions == cacheGet(c.transactions, leagueId, <<>>)
        waiverCap == waiverCapOf(league)
        folded == foldTx(initialTimelines(rosters, leagueId, waiverCap),
                         sortedTxOf(transactions))
        filled == [id \in DOMAIN folded |-> fillEliminatedWeek(folded[id], rosters)]
    IN [threw |-> FALSE, value |-> objectValues(filled)]

(***************************************************************************)
(* The view: filterTimelinesForView and renderChart.                       *)
(***************************************************************************)
lastOf(seq) == seq[Len(seq)]

\* The indices of keys in the order of a stable sort with the comparator
\* (a, b) => b - a: descending keys, equal keys in their original order.
RECURSIVE insertDesc(_, _, _)
\* Mutant: an element goes before the elements of equal key.
insertDesc_beforeEqual(sorted, i, keys) ==
  IF sorted = <<>> THEN <<i>>
  ELSE IF keys[i] - keys[Head(sorted)] >= 0 THEN <<i>> \o sorted
  ELSE <<Head(sorted)>> \o insertDesc(Tail(sorted), i, keys)

insertDesc(sorted, i, keys) ==
  IF sorted = <<>> THEN <<i>>
  ELSE IF keys[i] - keys[Head(sorted)] > 0 THEN <<i>> \o sorted
  ELSE <<Head(sorted)>> \o insertDesc(Tail(sorted), i, keys)

RECURSIVE sortDesc(_, _)
sortDesc(n, keys) == IF n = 0 THEN <<>> ELSE insertDesc(sortDesc(n - 1, keys), n, keys)

\* Mutant: 'remaining' filters nothing.
filterTimelinesForView_remainingUnfiltered(all, leagueFilter, teamStatusFilter) ==
  IF Len(all) = 0 THEN <<>>
  ELSE
    LET byLeague == IF leagueFilter # "both"
                      THEN SelectSeq(all, LAMBDA t : t.leagueId = leagueFilter)
                      ELSE all
        byStatus == IF teamStatusFilter = "chopped"
                      THEN SelectSeq(byLeague, LAMBDA t : t.isEliminated)
                    ELSE byLeague
        order == sortDesc(Len(byStatus), [i \in DOMAIN byStatus |-> lastOf(byStatus[i].points).fab])
    IN [k \in DOMAIN order |-> byStatus[order[k]]]

\* Mutant: the team status filter is applied to all the timelines instead
\* of those of the league selected.
filterTimelinesForView_statusOfAll(all, leagueFilter, teamStatusFilter) ==
  IF Len(all) = 0 THEN <<>>
  ELSE
    LET byLeague == IF leagueFilter # "both"
                      THEN SelectSeq(all, LAMBDA t : t.leagueId = leagueFilter)
                      ELSE all
        byStatus == IF teamStatusFilter = "remaining"
                      THEN SelectSeq(all, LAMBDA t : ~t.isEliminated)
                    ELSE IF teamStatusFilter = "chopped"
                      THEN SelectSeq(all, LAMBDA t : t.isEliminated)
                    ELSE byLeague
        order == sortDesc(Len(byStatus), [i \in DOMAIN byStatus |-> lastOf(byStatus[i].points).fab])
    IN [k \in DOMAIN order |-> byStatus[order[k]]]

filterTimelinesForView(all, leagueFilter, teamStatusFilter) ==
  IF Len(all) = 0 THEN <<>>
  ELSE
    LET byLeague == IF leagueFilter # "both"
                      THEN SelectSeq(all, LAMBDA t : t.leagueId = leagueFilter)
                      ELSE all
        byStatus == IF teamStatusFilter = "remaining"
                      THEN SelectSeq(byLeague, LAMBDA t : ~t.isEliminated)
                    ELSE IF teamStatusFilter = "chopped"
                      THEN SelectSeq(byLeague, LAMBDA t : t.isEliminated)
                    ELSE byLeague
        order == sortDesc(Len(byStatus), [i \in DOMAIN byStatus |-> lastOf(byStatus[i].points).fab])
    IN [k \in DOMAIN order |-> byStatus[order[k]]]

\* week + weekProgress of a point, in units of 1 / weekDurationMs weeks.
positionOf(point) == point.week * weekDurationMs + point.weekProgress

\* maxPosition: at full progress the furthest last point of a timeline that
\* is not eliminated, and at least maxWeek.
RECURSIVE maxPositionOf(_, _)
\* Mutant: the horizon is the current week whatever the lines reach.
maxPositionOf_currentWeek(timelines, maxWeek) == maxWeek * weekDurationMs

maxPositionOf(timelines, maxWeek) ==
  IF timelines = <<>> THEN maxWeek * weekDurationMs
  ELSE LET t == Head(timelines)
           rest == maxPositionOf(Tail(timelines), maxWeek)
       IN IF Len(t.points) > 0 /\ ~t.isEliminated
            THEN Max(rest, positionOf(lastOf(t.points)))
            ELSE rest

\* Mutant: an eliminated team is extended to the horizon like the others.
extendToHorizon_eliminatedToHorizon(timeline, maxPosition) ==
  LET visiblePoints == timeline.points
      lastVisible == lastOf(visiblePoints)
  IN IF positionOf(lastVisible) < maxPosition
       THEN Append(visiblePoints,
                   [week |-> maxPosition \div weekDurationMs,
                    weekProgress |-> maxPosition % weekDurationMs,
                    fab |-> lastVisible.fab, timestamp |-> lastVisible.timestamp])
       ELSE visiblePoints

\* "Extend timelines at full animation": the points drawn for a timeline
\* at progress 1.0.
extendToHorizon(timeline, maxPosition) ==
  LET visiblePoints == timeline.points
      lastVisible == lastOf(visiblePoints)
  IN IF timeline.isEliminated /\ timeline.eliminatedWeek # Null
       THEN LET kept == SelectSeq(visiblePoints, LAMBDA q : q.week <= timeline.eliminatedWeek)
            IN IF Len(kept) > 0 /\ lastOf(kept).week < timeline.eliminatedWeek
                 THEN Append(kept, [week |-> timeline.eliminatedWeek, weekProgress |-> 0,
                                    fab |-> lastOf(kept).fab,
                                    timestamp |-> lastOf(kept).timestamp])
                 ELSE kept
       ELSE IF positionOf(lastVisible) < maxPosition
         THEN Append(visiblePoints,
                     [week |-> maxPosition \div weekDurationMs,
                      weekProgress |-> maxPosition % weekDurationMs,
                      fab |-> lastVisible.fab, timestamp |-> lastVisible.timestamp])
         ELSE visiblePoints

\* Mutant: an eliminated team is grayed out from the start of the replay.
isEliminatedAt_fromStart(timeline, animationProgress, maxWeek) ==
  timeline.isEliminated /\ timeline.eliminatedWeek # Null

\* isEliminatedAtCurrentTime: maxWeek * animationProgress >= eliminatedWeek.
isEliminatedAt(timeline, animationProgress, maxWeek) ==
  /\ timeline.isEliminated
  /\ timeline.eliminatedWeek # Null
  /\ maxWeek * animationProgress >= timeline.eliminatedWeek * REPLAY_DURATION_MS

\* teamColorMap.get(teamKey) || CHART_COLORS[0]
teamColorOf(colorMap, timeline) ==
  LET teamKey == <<timeline.leagueId, timeline.rosterId>>
  IN IF Has(colorMap, teamKey) THEN colorMap[teamKey] ELSE 0

(***************************************************************************)
(* The numbers of the drawing. A JS number that the chart computes is kept *)
(* exact, as the fraction <<n, d>> in lowest terms with d > 0.             *)
(***************************************************************************)
RECURSIVE GCD(_, _)
GCD(a, b) == IF b = 0 THEN a ELSE GCD(b, a % b)

Abs(a) == IF a < 0 THEN -a ELSE a

Q(n, d) ==
  LET g == GCD(Abs(n), Abs(d))
  IN IF d < 0 THEN <<(-n) \div g, (-d) \div g>> ELSE <<n \div g, d \div g>>

qLcm(a, b) == (a[2] \div GCD(a[2], b[2])) * b[2]
qAdd(a, b) == Q(a[1] * (qLcm(a, b) \div a[2]) + b[1] * (qLcm(a, b) \div b[2]), qLcm(a, b))
qNeg(a) == <<-a[1], a[2]>>
qSub(a, b) == qAdd(a, qNeg(b))
qMul(a, b) ==
  LET g1 == GCD(Abs(a[1]), b[2])
      g2 == GCD(Abs(b[1]), a[2])
  IN <<(a[1] \div g1) * (b[1] \div g2), (a[2] \div g2) * (b[2] \div g1)>>
qInv(a) == IF a[1] < 0 THEN <<-a[2], -a[1]>> ELSE <<a[2], a[1]>>
qDiv(a, b) == qMul(a, qInv(b))
qLt(a, b) == a[1] * (qLcm(a, b) \div a[2]) < b[1] * (qLcm(a, b) \div b[2])
qLe(a, b) == ~qLt(b, a)
qAbs(a) == <<Abs(a[1]), a[2]>>
qMax(a, b) == IF qLt(a, b) THEN b ELSE a
qMin(a, b) == IF qLt(b, a) THEN b ELSE a
qFloor(a) == a[1] \div a[2]

\* A point of a timeline as the numbers the chart reads: weekProgress as
\* the fraction of the week, fab as a number.
numberPoint(p) ==
  [week |-> p.week, weekProgress |-> Q(p.weekProgress, weekDurationMs),
   fab |-> Q(p.fab, 1), timestamp |-> p.timestamp]

numberPoints(points) == [i \in DOMAIN points |-> numberPoint(points[i])]

\* point.week + point.weekProgress
weekWithProgress(point) == qAdd(Q(point.week, 1), point.weekProgress)

\* The geometry of the chart.
staticMaxFab == 1000
marginLeft == 60
marginTop == 40
chartWidth == 760
chartHeight == 510
JITTER_THRESHOLD == 5
JITTER_OFFSET == 7

xScale(w, maxWeek) == qAdd(Q(marginLeft, 1), qMul(qDiv(w, Q(maxWeek + 1, 1)), Q(chartWidth, 1)))
yScale(fab) ==
  qSub(Q(marginTop + chartHeight, 1), qMul(qDiv(fab, Q(staticMaxFab, 1)), Q(chartHeight, 1)))

\* Mutant: a point is drawn where it maps to, with or without an override.
pathX_mappedOnly(points, i, maxWeek) == xScale(weekWithProgress(points[i]), maxWeek)

\* The coordinate a point is drawn at: the override of the last point if it
\* has one (of the only point, whatever its place), else the mapped one.
\* The scales that createSmoothPath is given are those of maxWeek.
pathX(points, i, maxWeek) ==
  IF (i = Len(points) \/ Len(points) = 1) /\ Has(points[i], "_overrideX")
    THEN points[i]._overrideX ELSE xScale(weekWithProgress(points[i]), maxWeek)

pathY(points, i) ==
  IF (i = Len(points) \/ Len(points) = 1) /\ Has(points[i], "_overrideY")
    THEN points[i]._overrideY ELSE yScale(points[i].fab)

\* Mutant: the tension grows with the drop.
tensionOf_growing(fabDrop) == qMax(Q(3, 10), qMin(Q(6, 10), qDiv(fabDrop, Q(200, 1))))

\* tension = Math.max(0.3, Math.min(0.6, 1 - (fabDrop / 200)))
tensionOf(fabDrop) == qMax(Q(3, 10), qMin(Q(6, 10), qSub(Q(1, 1), qDiv(fabDrop, Q(200, 1)))))

\* The cubic segment to points[i], i > 1, with the tension it is drawn with.
curveTo(points, i, maxWeek) ==
  LET point == points[i]
      prevPoint == points[i - 1]
      x == pathX(points, i, maxWeek)
      y == pathY(points, i)
      prevX == xScale(weekWithProgress(prevPoint), maxWeek)
      prevY == yScale(prevPoint.fab)
      fabDrop == qAbs(qSub(point.fab, prevPoint.fab))
      tension == tensionOf(fabDrop)
      cp1x == qAdd(prevX, qMul(qSub(x, prevX), tension))
      cp1y == qAdd(prevY, qMul(qSub(y, prevY), Q(1, 10)))
      cp2x == qAdd(prevX, qMul(qSub(x, prevX), qSub(Q(1, 1), tension)))
      cp2y == qAdd(prevY, qMul(qSub(y, prevY), Q(9, 10)))
  IN <<"C", cp1x, cp1y, cp2x, cp2y, x, y>>

\* Mutant: the first point is not drawn and the path starts with a curve.
createSmoothPath_noMoveTo(points, maxWeek) ==
  IF Len(points) = 0 THEN <<>>
  ELSE [i \in 1..(Len(points) - 1) |-> curveTo(points, i + 1, maxWeek)]

\* The path data, as the sequence of its commands: '' is <<>>, "M x y" is
\* <<"M", x, y>> and " C cp1x cp1y, cp2x cp2y, x y" is the tuple of "C"
\* and the six numbers.
createSmoothPath(points, maxWeek) ==
  IF Len(points) = 0 THEN <<>>
  ELSE IF Len(points) = 1
    THEN << <<"M", pathX(points, 1, maxWeek), pathY(points, 1)>> >>
  ELSE [i \in DOMAIN points |->
          IF i = 1 THEN <<"M", pathX(points, 1, maxWeek), pathY(points, 1)>>
          ELSE curveTo(points, i, maxWeek)]

\* First pass at a progress below 1.0: the points up to
\* targetWeek = maxWeek * animationProgress and, when a point lies beyond
\* it, one point interpolated at targetWeek.
RECURSIVE visibleUpTo(_, _, _, _)
visibleUpTo(points, i, targetWeek, acc) ==
  IF i > Len(points) THEN acc
  ELSE LET point == points[i]
           pointWeek == weekWithProgress(point)
       IN IF qLe(pointWeek, targetWeek)
            THEN visibleUpTo(points, i + 1, targetWeek, Append(acc, point))
          ELSE IF i > 1
            THEN LET prevPoint == points[i - 1]
                     prevWeek == weekWithProgress(prevPoint)
                     weekDiff == qSub(pointWeek, prevWeek)
                     fabDiff == qSub(point.fab, prevPoint.fab)
                     progress == qDiv(qSub(targetWeek, prevWeek), weekDiff)
                 IN Append(acc, [week |-> qFloor(targetWeek),
                                 weekProgress |-> qSub(targetWeek, Q(qFloor(targetWeek), 1)),
                                 fab |-> qAdd(prevPoint.fab, qMul(fabDiff, progress)),
                                 timestamp |-> prevPoint.timestamp])
          ELSE acc

\* The visible points of a timeline after both passes: the prefix below
\* progress 1.0, the extended points at 1.0.
visiblePointsOf(timelines, index, animationProgress, st) ==
  LET timeline == timelines[index]
      maxWeek == st.staticMaxWeek
  IN IF animationProgress < REPLAY_DURATION_MS
       THEN LET points == numberPoints(timeline.points)
                targetWeek == Q(maxWeek * animationProgress, REPLAY_DURATION_MS)
                prefix == visibleUpTo(points, 1, targetWeek, <<>>)
            IN IF Len(prefix) = 0 /\ Len(points) > 0 THEN <<points[1]>> ELSE prefix
     ELSE IF Len(timeline.points) > 0
       THEN numberPoints(extendToHorizon(timeline, maxPositionOf(timelines, maxWeek)))
     ELSE <<>>

\* baseEndpoint: where the last visible point maps to.
baseEndpointOf(visiblePoints, maxWeek) ==
  LET lastPoint == lastOf(visiblePoints)
  IN [x |-> xScale(weekWithProgress(lastPoint), maxWeek), y |-> yScale(lastPoint.fab)]

\* The offsets of the first n avatars: each is compared with the earlier
\* ones where their offsets put them, and moved by JITTER_OFFSET down and
\* half of it right for every one that is nearer than the threshold.
RECURSIVE jitterOffsets(_, _)
jitterOffsets(avatarPositions, n) ==
  IF n = 0 THEN <<>>
  ELSE LET earlier == jitterOffsets(avatarPositions, n - 1)
           pos == avatarPositions[n]
           near == {j \in 1..(n - 1) :
                      LET other == avatarPositions[j]
                          dx == qAbs(qSub(pos.x, qAdd(other.x, earlier[j].xOffset)))
                          dy == qAbs(qSub(pos.y, qAdd(other.y, earlier[j].yOffset)))
                      IN qLt(dx, Q(JITTER_THRESHOLD, 1)) /\ qLt(dy, Q(JITTER_THRESHOLD, 1))}
       IN Append(earlier, [xOffset |-> Q(JITTER_OFFSET * Cardinality(near), 2),
                           yOffset |-> Q(JITTER_OFFSET * Cardinality(near), 1)])

\* adjustedPoints: a copy of the visible points whose last point carries
\* the position of the avatar.
adjustedPointsOf(visiblePoints, x, y) ==
  [i \in DOMAIN visiblePoints |->
     IF i = Len(visiblePoints)
       THEN [f \in DOMAIN visiblePoints[i] \cup {"_overrideX", "_overrideY"} |->
               IF f = "_overrideX" THEN x
               ELSE IF f = "_overrideY" THEN y
               ELSE visiblePoints[i][f]]
       ELSE visiblePoints[i]]

\* The stroke of a line: '#999', or the colour of the team in the palette.
strokeOf(isEliminatedAtCurrentTime, teamColor) ==
  IF isEliminatedAtCurrentTime THEN <<"#999">> ELSE <<"CHART_COLORS", teamColor>>

\* The opacity attribute of a path: the values that the setAttribute calls
\* give it in turn, the one for a grayed line first and the one from the
\* hover state after; the attribute keeps the last.
opacityOf(isEliminatedAtCurrentTime, hoveredIndex, index) ==
  LET grayed == IF isEliminatedAtCurrentTime
                  THEN <<IF hoveredIndex = index THEN "0.6" ELSE "0.3">>
                  ELSE <<>>
      fromHover == IF hoveredIndex # Null /\ hoveredIndex # index THEN "0.4" ELSE "1"
  IN lastOf(grayed \o <<fromHover>>)

\* Mutant: a line takes the colour of its place in the list drawn.
lineOf_colorByIndex(timelines, index, animationProgress, st) ==
  LET timeline == timelines[index]
      full == animationProgress = REPLAY_DURATION_MS
      gray == isEliminatedAt(timeline, animationProgress, st.staticMaxWeek)
      line == [originalIndex |-> index,
               teamKey |-> <<timeline.leagueId, timeline.rosterId>>,
               teamColor |-> (index - 1) % CHART_COLORS_length,
               isEliminatedAtCurrentTime |-> gray,
               hovered |-> st.hoveredTeamIndex = index,
               stroke |-> strokeOf(gray, (index - 1) % CHART_COLORS_length),
               opacity |-> opacityOf(gray, st.hoveredTeamIndex, index),
               filter |-> IF st.hoveredTeamIndex = index THEN "url(#glow)" ELSE "none",
               strokeWidth |-> IF st.hoveredTeamIndex = index THEN 4 ELSE 3,
               circleFill |-> IF gray THEN <<"#ccc">>
                              ELSE <<"CHART_COLORS", (index - 1) % CHART_COLORS_length>>]
  IN IF full
       THEN [f \in DOMAIN line \cup {"visiblePoints"} |->
               IF f = "visiblePoints"
                 THEN extendToHorizon(timeline, maxPositionOf(timelines, st.staticMaxWeek))
                 ELSE line[f]]
       ELSE line

\* What is drawn for timelines[index]: the team's colour, whether it is
\* grayed out and hovered, the attributes of its path and the fill of its
\* avatar, and at progress 1.0 the points of its path.
lineOf(timelines, index, animationProgress, st) ==
  LET timeline == timelines[index]
      full == animationProgress = REPLAY_DURATION_MS
      gray == isEliminatedAt(timeline, animationProgress, st.staticMaxWeek)
      teamColor == teamColorOf(st.teamColorMap, timeline)
      line == [originalIndex |-> index,
               teamKey |-> <<timeline.leagueId, timeline.rosterId>>,
               teamColor |-> teamColor,
               isEliminatedAtCurrentTime |-> gray,
               hovered |-> st.hoveredTeamIndex = index,
               stroke |-> strokeOf(gray, teamColor),
               opacity |-> opacityOf(gray, st.hoveredTeamIndex, index),
               filter |-> IF st.hoveredTeamIndex = index THEN "url(#glow)" ELSE "none",
               strokeWidth |-> IF st.hoveredTeamIndex = index THEN 4 ELSE 3,
               circleFill |-> IF gray THEN <<"#ccc">> ELSE <<"CHART_COLORS", teamColor>>]
  IN IF full
       THEN [f \in DOMAIN line \cup {"visiblePoints"} |->
               IF f = "visiblePoints"
                 THEN extendToHorizon(timeline, maxPositionOf(timelines, st.staticMaxWeek))
                 ELSE line[f]]
       ELSE line

\* renderChart past its guard: one line per timeline, in descending
\* currentFab order (z-order).
drawChart(timelines, animationProgress, st) ==
  LET order == sortDesc(Len(timelines), [i \in DOMAIN timelines |-> timelines[i].currentFab])
  IN [empty |-> FALSE,
      animationProgress |-> animationProgress,
      lines |-> [k \in DOMAIN order |-> lineOf(timelines, order[k], animationProgress, st)]]

\* Mutant: the guard for an empty list is missing and the axes and grid
\* are drawn.
renderChart_noEmptyGuard(timelines, animationProgress, st) ==
  drawChart(timelines, animationProgress, st)

\* The svg returned: the bare svg for an empty list, else the chart. st is
\* the module state the function reads (hoveredTeamIndex, staticMaxWeek,
\* teamColorMap).
renderChart(timelines, animationProgress, st) ==
  IF Len(timelines) = 0 THEN [empty |-> TRUE, lines |-> <<>>]
  ELSE drawChart(timelines, animationProgress, st)

\* The geometry of the svg that renderChart(timelines, animationProgress)
\* returns: for every line drawn, in the order drawn, its visible points,
\* the base position of its avatar, the offset that declutters it and
\* the data of its path, which ends at the avatar.
geometryOf(timelines, animationProgress, st) ==
  IF Len(timelines) = 0 THEN <<>>
  ELSE
    LET order == sortDesc(Len(timelines), [i \in DOMAIN timelines |-> timelines[i].currentFab])
        visible == [k \in DOMAIN order |->
                      visiblePointsOf(timelines, order[k], animationProgress, st)]
        drawn == SelectSeq([k \in DOMAIN order |-> k], LAMBDA k : Len(visible[k]) > 0)
        avatarPositions ==
          [d \in DOMAIN drawn |-> baseEndpointOf(visible[drawn[d]], st.staticMaxWeek)]
        offsets == jitterOffsets(avatarPositions, Len(avatarPositions))
    IN [d \in DOMAIN drawn |->
          LET base == avatarPositions[d]
              endX == qAdd(base.x, offsets[d].xOffset)
              endY == qAdd(base.y, offsets[d].yOffset)
          IN [originalIndex |-> order[drawn[d]],
              visiblePoints |-> visible[drawn[d]],
              x |-> base.x, y |-> base.y,
              xOffset |-> offsets[d].xOffset, yOffset |-> offsets[d].yOffset,
              pathData |-> createSmoothPath(adjustedPointsOf(visible[drawn[d]], endX, endY),
                                            st.staticMaxWeek)]]

(***************************************************************************)
(* The module state and the handlers of the chart. A handler is an         *)
(* operator from the module state (a record of the variables) to the       *)
(* module state, so that a handler can call another; an action applies a   *)
(* handler to the current state. Progress p in [0,1] is kept as the        *)
(* numerator p * REPLAY_DURATION_MS, and the clock counts the same unit.   *)
(***************************************************************************)
moduleState ==
  [baseTimelines |-> baseTimelines, container |-> container, chart |-> chart,
   currentFilter |-> currentFilter, currentTeamStatusFilter |-> currentTeamStatusFilter,
   isAnimating |-> isAnimating, isPaused |-> isPaused,
   animationFrameId |-> animationFrameId, pausedProgress |-> pausedProgress,
   currentAnimationProgress |-> currentAnimationProgress,
   hoveredTeamIndex |-> hoveredTeamIndex, staticMaxWeek |-> staticMaxWeek,
   teamColorMap |-> teamColorMap, frames |-> frames, extendSteps |-> 0]

setModuleState(next) ==
  \E st \in {next} :
    /\ baseTimelines' = st.baseTimelines
    /\ container' = st.container
    /\ chart' = st.chart
    /\ currentFilter' = st.currentFilter
    /\ currentTeamStatusFilter' = st.currentTeamStatusFilter
    /\ isAnimating' = st.isAnimating
    /\ isPaused' = st.isPaused
    /\ animationFrameId' = st.animationFrameId
    /\ pausedProgress' = st.pausedProgress
    /\ currentAnimationProgress' = st.currentAnimationProgress
    /\ hoveredTeamIndex' = st.hoveredTeamIndex
    /\ staticMaxWeek' = st.staticMaxWeek
    /\ teamColorMap' = st.teamColorMap
    /\ frames' = st.frames
    /\ extendSteps' = st.extendSteps

visibleTimelines(st) ==
  filterTimelinesForView(st.baseTimelines, st.currentFilter, st.currentTeamStatusFilter)

\* A call renderChart(filterTimelinesForView(baseTimelines), animationProgress)
\* whose svg is put in the chart container. extendSteps counts the runs of
\* the "extend timelines at full animation" pass since the handler began.
draw(st, animationProgress) ==
  LET timelines == visibleTimelines(st)
  IN [st EXCEPT !.chart = renderChart(timelines, animationProgress, st),
                !.extendSteps = IF animationProgress = REPLAY_DURATION_MS /\ Len(timelines) > 0
                                  THEN @ + 1 ELSE @]

\* Mutant: the host drops no callback.
cancelAnimationFrame_keepsAll(pending, id) == pending

\* cancelAnimationFrame(id)
cancelAnimationFrame(pending, id) == {f \in pending : f.id # id}

\* requestAnimationFrame(animate): a handle that no pending callback and
\* no stored handle uses.
newFrameId(st) ==
  CHOOSE id \in 1..(Cardinality(st.frames) + 2) :
    /\ id # st.animationFrameId
    /\ \A f \in st.frames : f.id # id

\* Mutant: the paused view is drawn at full progress.
rerenderNotAnimating_pausedAtFull(st) ==
  IF st.isPaused
    THEN [draw(st, REPLAY_DURATION_MS) EXCEPT !.container = "paused"]
    ELSE [draw(st, REPLAY_DURATION_MS) EXCEPT !.container = "static"]

\* applyFiltersAndRerender when not animating: paused (Resume button) or
\* static (Replay button).
rerenderNotAnimating(st) ==
  IF st.isPaused
    THEN [draw(st, st.currentAnimationProgress) EXCEPT !.container = "paused"]
    ELSE [draw(st, REPLAY_DURATION_MS) EXCEPT !.container = "static"]

renderFinalState(st) ==
  rerenderNotAnimating([st EXCEPT !.isAnimating = FALSE, !.isPaused = FALSE,
                                   !.currentAnimationProgress = REPLAY_DURATION_MS])

\* Mutant: a frame is requested at progress 1.0 as well.
animate_requestsAtFull(st, startTime, clock) ==
  LET elapsed == clock - startTime
      progress == Min(elapsed, REPLAY_DURATION_MS)
      drawn == draw([st EXCEPT !.pausedProgress = progress,
                               !.currentAnimationProgress = progress], progress)
      id == newFrameId(drawn)
  IN IF progress <= REPLAY_DURATION_MS /\ ~drawn.isPaused
       THEN [drawn EXCEPT !.animationFrameId = id,
                          !.frames = @ \cup {[id |-> id, startTime |-> startTime]}]
     ELSE drawn

\* One run of the animate closure of a resumeReplay call that set startTime.
animate(st, startTime, clock) ==
  LET elapsed == clock - startTime
      progress == Min(elapsed, REPLAY_DURATION_MS)
      drawn == draw([st EXCEPT !.pausedProgress = progress,
                               !.currentAnimationProgress = progress], progress)
  IN IF progress < REPLAY_DURATION_MS /\ ~drawn.isPaused
       THEN LET id == newFrameId(drawn)
            IN [drawn EXCEPT !.animationFrameId = id,
                             !.frames = @ \cup {[id |-> id, startTime |-> startTime]}]
     ELSE IF progress >= REPLAY_DURATION_MS
       THEN renderFinalState([drawn EXCEPT !.isAnimating = FALSE, !.isPaused = FALSE,
                                           !.pausedProgress = 0])
     ELSE drawn

\* Mutant: isPaused is left as it was.
resumeReplay_staysPaused(st, startProgress, clock) ==
  IF st.isAnimating THEN st
  ELSE LET startTime == clock - startProgress
           started == draw([st EXCEPT !.isAnimating = TRUE, !.container = "playing"],
                           startProgress)
       IN animate(started, startTime, clock)

\* Mutant: the start time is the time of the call.
resumeReplay_startAtNow(st, startProgress, clock) ==
  IF st.isAnimating THEN st
  ELSE LET started == draw([st EXCEPT !.isPaused = FALSE, !.isAnimating = TRUE,
                                      !.container = "playing"], startProgress)
       IN animate(started, clock, clock)

resumeReplay(st, startProgress, clock) ==
  IF st.isAnimating THEN st
  ELSE LET startTime == clock - startProgress
           started == draw([st EXCEPT !.isPaused = FALSE, !.isAnimating = TRUE,
                                      !.container = "playing"], startProgress)
       IN animate(started, startTime, clock)

\* Mutant: the replay restarts from the beginning.
applyFiltersAndRerender_restartFromZero(st, clock) ==
  IF st.isAnimating
    THEN LET cancelled ==
               IF st.animationFrameId # Null
                 THEN [st EXCEPT !.frames = cancelAnimationFrame(@, st.animationFrameId)]
                 ELSE st
         IN resumeReplay([cancelled EXCEPT !.isAnimating = FALSE], 0, clock)
    ELSE rerenderNotAnimating(st)

\* Mutant: the pending frame is not cancelled.
applyFiltersAndRerender_noCancel(st, clock) ==
  IF st.isAnimating
    THEN resumeReplay([st EXCEPT !.isAnimating = FALSE], st.currentAnimationProgress, clock)
    ELSE rerenderNotAnimating(st)

applyFiltersAndRerender(st, clock) ==
  IF st.isAnimating
    THEN LET cancelled ==
               IF st.animationFrameId # Null
                 THEN [st EXCEPT !.frames = cancelAnimationFrame(@, st.animationFrameId)]
                 ELSE st
         IN resumeReplay([cancelled EXCEPT !.isAnimating = FALSE],
                         st.currentAnimationProgress, clock)
    ELSE rerenderNotAnimating(st)

\* Mutant: the pending frame is not cancelled.
pauseReplay_noCancel(st, currentProgress, clock) ==
  IF ~st.isAnimating THEN st
  ELSE applyFiltersAndRerender([st EXCEPT !.isPaused = TRUE, !.isAnimating = FALSE,
                                          !.pausedProgress = currentProgress,
                                          !.currentAnimationProgress = currentProgress], clock)

pauseReplay(st, currentProgress, clock) ==
  IF ~st.isAnimating THEN st
  ELSE LET flagged == [st EXCEPT !.isPaused = TRUE, !.isAnimating = FALSE,
                                 !.pausedProgress = currentProgress,
                                 !.currentAnimationProgress = currentProgress]
           cancelled ==
             IF flagged.animationFrameId # Null
               THEN [flagged EXCEPT !.frames = cancelAnimationFrame(@, flagged.animationFrameId),
                                    !.animationFrameId = Null]
               ELSE flagged
       IN applyFiltersAndRerender(cancelled, clock)

\* Mutant: no test of isAnimating.
startReplay_unguarded(st, clock) ==
  resumeReplay([st EXCEPT !.pausedProgress = 0], 0, clock)

startReplay(st, clock) ==
  IF st.isAnimating
    THEN IF st.isPaused THEN resumeReplay(st, st.pausedProgress, clock) ELSE st
    ELSE resumeReplay([st EXCEPT !.pausedProgress = 0], 0, clock)

\* Mutant: the chart is rendered again whether a replay runs or not.
mouseenter_alwaysRender(st, teamIndex) ==
  draw([st EXCEPT !.hoveredTeamIndex = teamIndex], st.currentAnimationProgress)

\* The mouseenter listener of an element with data-team-index.
mouseenter(st, teamIndex) ==
  LET hovered == [st EXCEPT !.hoveredTeamIndex = teamIndex]
  IN IF ~hovered.isAnimating THEN draw(hovered, hovered.currentAnimationProgress)
     ELSE hovered

\* The mouseleave listener of the svg.
mouseleave(st) ==
  IF st.hoveredTeamIndex # Null
    THEN LET cleared == [st EXCEPT !.hoveredTeamIndex = Null]
         IN IF ~cleared.isAnimating THEN draw(cleared, cleared.currentAnimationProgress)
            ELSE cleared
    ELSE st

\* baseTimelines.push(...computeFABTimeline(id)) for the leagues in order,
\* up to the first one that throws.
RECURSIVE loadTimelines(_, _, _)
loadTimelines(c, leagueIds, acc) ==
  IF leagueIds = <<>> THEN [threw |-> FALSE, value |-> acc]
  ELSE LET r == computeFABTimeline(c, Head(leagueIds))
       IN IF r.threw THEN [threw |-> TRUE, value |-> acc]
          ELSE loadTimelines(c, Tail(leagueIds), acc \o r.value)

teamKeyOf(t) == <<t.leagueId, t.rosterId>>

\* teamColorMap.set(teamKey, CHART_COLORS[index % CHART_COLORS.length]), the
\* colour being its index in the palette; a later set of a key overwrites.
assignColors(timelines) ==
  [key \in {teamKeyOf(timelines[i]) : i \in DOMAIN timelines} |->
     LET last == CHOOSE i \in DOMAIN timelines :
                   /\ teamKeyOf(timelines[i]) = key
                   /\ \A j \in DOMAIN timelines : teamKeyOf(timelines[j]) = key => j <= i
     IN (last - 1) % CHART_COLORS_length]

\* renderFABSpendingView(container, currentFilter) once the transactions of
\* every league are fetched; a throw is caught and the message is shown.
renderFABSpendingView(st, c) ==
  LET loaded == loadTimelines(c, LEAGUE_IDS, <<>>)
  IN IF loaded.threw
       THEN [st EXCEPT !.baseTimelines = loaded.value, !.container = "error"]
       ELSE LET reset == [st EXCEPT !.baseTimelines = loaded.value,
                                    !.teamColorMap = assignColors(loaded.value),
                                    !.staticMaxWeek = MaxWeek,
                                    !.isAnimating = FALSE,
                                    !.isPaused = FALSE,
                                    !.pausedProgress = 0,
                                    !.hoveredTeamIndex = Null,
                                    !.currentAnimationProgress = REPLAY_DURATION_MS]
            IN [draw(reset, REPLAY_DURATION_MS) EXCEPT !.container = "static"]

(***************************************************************************)
(* Actions.                                                                *)
(***************************************************************************)
emptyMap == [k \in {} |-> 0]
mapSet(map, key, value) == [k \in DOMAIN map \cup {key} |-> IF k = key THEN value ELSE map[k]]

noChart == [empty |-> TRUE, lines |-> <<>>]

noCall == [fn |-> "none"]
noResult == [returned |-> FALSE]

\* The module-level variables as the module initialises them.
InitModuleState ==
  /\ baseTimelines = <<>>
  /\ container = "blank"
  /\ chart = noChart
  /\ currentFilter = "both"
  /\ currentTeamStatusFilter = "all"
  /\ isAnimating = FALSE
  /\ isPaused = FALSE
  /\ animationFrameId = Null
  /\ pausedProgress = 0
  /\ currentAnimationProgress = REPLAY_DURATION_MS
  /\ hoveredTeamIndex = Null
  /\ staticMaxWeek = 0
  /\ teamColorMap = emptyMap
  /\ frames = {}
  /\ now = 0
  /\ lastOp = "none"
  /\ extendSteps = 0

\* No call is followed apart from the handlers.
noCallFollowed ==
  /\ callArgs = noCall
  /\ callResult = noResult

\* initLeagues, one league: a failed fetch sets nothing (catch).
initLeagues(leagueId) ==
  /\ ~Has(cache.leagues, leagueId)
  /\ \E league \in Leagues, rosters \in RosterLists :
       cache' = [cache EXCEPT !.leagues = mapSet(@, leagueId, league),
                              !.rosters = mapSet(@, leagueId, rosters)]
  /\ UNCHANGED <<viewVars, now, lastOp, callVars>>

\* fetchLeagueTransactions: the arrays of weeks 1..maxWeekToFetch, each
\* transaction tagged with its week, concatenated in week order; a week
\* whose request fails contributes nothing.
fetchLeagueTransactions(leagueId) ==
  /\ ~Has(cache.transactions, leagueId)
  /\ \E n \in 0..MaxTx :
       \E txs \in [1..n -> TxShapes], wk \in [1..n -> 1..MaxWeek] :
         /\ \A i \in 1..n : i < n => wk[i] <= wk[i + 1]
         /\ cache' = [cache EXCEPT !.transactions =
                         mapSet(@, leagueId, [i \in 1..n |-> withWeek(txs[i], wk[i])])]
  /\ UNCHANGED <<viewVars, now, lastOp, callVars>>

\* Mutant: the cached arrays themselves are sorted.
cacheAfterCompute_sortInPlace(c) ==
  [c EXCEPT !.transactions = [id \in DOMAIN @ |-> sortTx(@[id])]]

\* filter() copies the cached array before sort() reorders it, and the
\* league and rosters are only read: the cache is left as it was.
cacheAfterCompute(c) == c

\* loadFABSpending, run once per session (state.fabSpendingLoaded), from
\* the point where the transactions of every league are in the cache.
loadFABSpending ==
  /\ container = "blank"
  /\ \A i \in DOMAIN LEAGUE_IDS : Has(cache.transactions, LEAGUE_IDS[i])
  /\ setModuleState(renderFABSpendingView(moduleState, cache))
  /\ cache' = cacheAfterCompute(cache)
  /\ lastOp' = "loadFABSpending"
  /\ UNCHANGED <<now, callVars>>

\* The Replay button of the static view.
clickReplay ==
  /\ container = "static"
  /\ setModuleState(startReplay(moduleState, now))
  /\ lastOp' = "startReplay"
  /\ UNCHANGED <<cache, now, callVars>>

\* The Pause button shown while playing.
clickPause ==
  /\ container = "playing"
  /\ setModuleState(pauseReplay(moduleState, currentAnimationProgress, now))
  /\ lastOp' = "pauseReplay"
  /\ UNCHANGED <<cache, now, callVars>>

\* The Resume button of the paused view.
clickResume ==
  /\ container = "paused"
  /\ setModuleState(resumeReplay(moduleState, currentAnimationProgress, now))
  /\ lastOp' = "resumeReplay"
  /\ UNCHANGED <<cache, now, callVars>>

hasControls == container \in {"static", "playing", "paused"}

\* A button of the league segmented control.
clickLeagueFilter(value) ==
  /\ hasControls
  /\ setModuleState(applyFiltersAndRerender([moduleState EXCEPT !.currentFilter = value], now))
  /\ lastOp' = "leagueFilter"
  /\ UNCHANGED <<cache, now, callVars>>

\* A button of the team status segmented control.
clickTeamStatusFilter(value) ==
  /\ hasControls
  /\ setModuleState(applyFiltersAndRerender(
                      [moduleState EXCEPT !.currentTeamStatusFilter = value], now))
  /\ lastOp' = "teamStatusFilter"
  /\ UNCHANGED <<cache, now, callVars>>

\* The host runs a pending animation frame callback.
animationFrame ==
  \E f \in frames :
    /\ setModuleState(animate([moduleState EXCEPT !.frames = @ \ {f}], f.startTime, now))
    /\ lastOp' = "animationFrame"
    /\ UNCHANGED <<cache, now, callVars>>

\* The pointer enters the line or the avatar of a team of the chart shown.
mouseenterTeam(teamIndex) ==
  /\ hasControls
  /\ ~chart.empty
  /\ \E k \in DOMAIN chart.lines : chart.lines[k].originalIndex = teamIndex
  /\ setModuleState(mouseenter(moduleState, teamIndex))
  /\ lastOp' = "mouseenter"
  /\ UNCHANGED <<cache, now, callVars>>

\* The pointer leaves the svg of the chart shown.
mouseleaveChart ==
  /\ hasControls
  /\ ~chart.empty
  /\ setModuleState(mouseleave(moduleState))
  /\ lastOp' = "mouseleave"
  /\ UNCHANGED <<cache, now, callVars>>

\* Date.now() advances. The clock is read by resumeReplay and animate only,
\* as a difference, so it is let run during a replay, playing or paused.
tick ==
  /\ isAnimating \/ isPaused
  /\ now < MaxNow
  /\ now' = now + 1
  /\ UNCHANGED <<cache, viewVars, lastOp, callVars>>

(***************************************************************************)
(* SpecRecon: the reconstruction of one league from whatever its loaders   *)
(* put in the cache; the other league is loaded and has no roster.         *)
(***************************************************************************)
ReconLeagues == {LEAGUE_IDS[1]}

loadedEmpty == [name |-> "league", settings |-> [type |-> 0, waiver_budget |-> MaxCap]]

InitRecon ==
  /\ cache = [leagues |-> mapSet(emptyMap, LEAGUE_IDS[2], loadedEmpty),
              rosters |-> mapSet(emptyMap, LEAGUE_IDS[2], <<>>),
              transactions |-> mapSet(emptyMap, LEAGUE_IDS[2], <<>>)]
  /\ InitModuleState
  /\ noCallFollowed

NextRecon ==
  \/ \E leagueId \in ReconLeagues : initLeagues(leagueId)
  \/ \E leagueId \in ReconLeagues : fetchLeagueTransactions(leagueId)
  \/ loadFABSpending

SpecRecon == InitRecon /\ [][NextRecon]_vars

(***************************************************************************)
(* SpecView: the chart and its replay over both leagues, from a cache      *)
(* that the loaders have filled.                                           *)
(***************************************************************************)
viewLeague == [name |-> "league", settings |-> [type |-> 0, waiver_budget |-> MaxCap]]

viewRosters ==
  <<[roster_id |-> 1, settings |-> [waiver_budget_used |-> 1]],
    [roster_id |-> 2, settings |-> [waiver_budget_used |-> 0, eliminated |-> 1]]>>

viewTransactions ==
  <<[type |-> "waiver", status |-> "complete", roster_ids |-> <<2>>, _week |-> 1,
     status_updated |-> seasonStartMs + 1, settings |-> [waiver_bid |-> 2]],
    [type |-> "waiver", status |-> "complete", roster_ids |-> <<1>>, _week |-> 2,
     status_updated |-> seasonStartMs + 8, settings |-> [waiver_bid |-> 1]]>>

\* What a league has in the cache: no roster, rosters without any
\* transaction, or rosters with transactions.
ViewLeagueData ==
  {[rosters |-> <<>>, transactions |-> <<>>],
   [rosters |-> viewRosters, transactions |-> <<>>],
   [rosters |-> viewRosters, transactions |-> viewTransactions]}

InitView ==
  /\ \E d \in [{LEAGUE_IDS[1], LEAGUE_IDS[2]} -> ViewLeagueData] :
       cache = [leagues |-> [id \in DOMAIN d |-> viewLeague],
                rosters |-> [id \in DOMAIN d |-> d[id].rosters],
                transactions |-> [id \in DOMAIN d |-> d[id].transactions]]
  /\ InitModuleState
  /\ noCallFollowed

NextView ==
  \/ loadFABSpending
  \/ clickReplay
  \/ clickPause
  \/ clickResume
  \/ \E value \in {"both", LEAGUE_IDS[1], LEAGUE_IDS[2]} : clickLeagueFilter(value)
  \/ \E value \in {"all", "remaining", "chopped"} : clickTeamStatusFilter(value)
  \/ animationFrame
  \/ tick

SpecView == InitView /\ [][NextView]_vars

(***************************************************************************)
(* SpecReplay: the replay controller and the pointer over the chart of two *)
(* leagues that both have rosters and transactions.                        *)
(***************************************************************************)
InitReplay ==
  /\ cache = [leagues |-> [id \in {LEAGUE_IDS[1], LEAGUE_IDS[2]} |-> viewLeague],
              rosters |-> [id \in {LEAGUE_IDS[1], LEAGUE_IDS[2]} |-> viewRosters],
              transactions |-> [id \in {LEAGUE_IDS[1], LEAGUE_IDS[2]} |-> viewTransactions]]
  /\ InitModuleState
  /\ noCallFollowed

NextReplay ==
  \/ NextView
  \/ \E teamIndex \in DOMAIN baseTimelines : mouseenterTeam(teamIndex)
  \/ mouseleaveChart

SpecReplay == InitReplay /\ [][NextReplay]_vars

(***************************************************************************)
(* SpecPlayback: the replay under the scheduling of the host. A pending    *)
(* frame callback is run in the end and Date.now() keeps advancing; the    *)
(* clicks are under no obligation. Only differences of the clock are read  *)
(* (lines 986, 1014), so once now is at MaxNow the origin of the clock is  *)
(* moved forward instead: the start time of the pending callback is one    *)
(* earlier, down to the point where elapsed is REPLAY_DURATION_MS, beyond  *)
(* which animate computes the same progress.                               *)
(***************************************************************************)
clockAdvances ==
  /\ isAnimating \/ isPaused
  /\ IF now < MaxNow
       THEN now' = now + 1 /\ frames' = frames
       ELSE /\ now' = now
            /\ frames' = {[f EXCEPT !.startTime = Max(@ - 1, now - REPLAY_DURATION_MS)] :
                            f \in frames}
  /\ UNCHANGED <<cache, baseTimelines, container, chart, currentFilter,
                 currentTeamStatusFilter, isAnimating, isPaused, animationFrameId,
                 pausedProgress, currentAnimationProgress, hoveredTeamIndex, staticMaxWeek,
                 teamColorMap, extendSteps, lastOp, callVars>>

NextPlayback ==
  \/ loadFABSpending
  \/ clickReplay
  \/ clickPause
  \/ clickResume
  \/ \E value \in {"both", LEAGUE_IDS[1], LEAGUE_IDS[2]} : clickLeagueFilter(value)
  \/ \E value \in {"all", "remaining", "chopped"} : clickTeamStatusFilter(value)
  \/ animationFrame
  \/ clockAdvances

\* A step in which the host has run the pending callback: the handler that
\* ran last is animate, and the callback is gone (the replay is complete)
\* or the handle held is that of the callback requested in its place. These
\* are the steps of animationFrame, and one is possible whenever a callback
\* is pending.
frameVars == <<lastOp, frames, animationFrameId>>

frameRuns ==
  /\ frames # {}
  /\ lastOp' = "animationFrame"
  /\ \/ frames' = {} /\ animationFrameId' = animationFrameId
     \/ animationFrameId' # animationFrameId

SpecPlayback ==
  /\ InitReplay
  /\ [][NextPlayback]_vars
  /\ WF_frameVars(frameRuns)
  /\ WF_vars(clockAdvances)

(***************************************************************************)
(* SpecChart: renderChart as a function of the list it is given, the       *)
(* progress and the module state it reads. The lists are the views of what *)
(* loadFABSpending puts in baseTimelines for the caches of SpecView, for a *)
(* league whose second roster is eliminated in week 2 and for a league     *)
(* whose transactions have timestamps outside their week; the current      *)
(* week is the last week with a transaction or the week after.             *)
(***************************************************************************)
chartRosters ==
  <<[roster_id |-> 1, settings |-> [waiver_budget_used |-> 1]],
    [roster_id |-> 2, settings |-> [waiver_budget_used |-> 2, eliminated |-> 2]]>>

\* Transactions whose timestamp is outside the window of their week: none
\* at all (0), one far after the window, one before it.
clampedTransactions ==
  <<[type |-> "waiver", status |-> "complete", roster_ids |-> <<1>>, _week |-> 1,
     settings |-> [waiver_bid |-> 1]],
    [type |-> "waiver", status |-> "complete", roster_ids |-> <<2>>, _week |-> 1,
     status_updated |-> seasonStartMs + 30, settings |-> [waiver_bid |-> 1]],
    [type |-> "waiver", status |-> "complete", roster_ids |-> <<1>>, _week |-> 2,
     status_updated |-> seasonStartMs + 1, settings |-> [waiver_bid |-> 1]]>>

ChartLeagueData ==
  ViewLeagueData \cup {[rosters |-> chartRosters, transactions |-> viewTransactions],
                       [rosters |-> viewRosters, transactions |-> clampedTransactions]}

ChartCaches ==
  {[leagues |-> [id \in DOMAIN d |-> viewLeague],
    rosters |-> [id \in DOMAIN d |-> d[id].rosters],
    transactions |-> [id \in DOMAIN d |-> d[id].transactions]] :
     d \in [{LEAGUE_IDS[1], LEAGUE_IDS[2]} -> ChartLeagueData]}

\* The arguments of the renderChart calls of a session that loaded c and
\* whose current week is maxWeek.
renderCallsOf(c, maxWeek) ==
  LET base == loadTimelines(c, LEAGUE_IDS, <<>>).value
      views == {filterTimelinesForView(base, f, s) :
                  f \in {"both", LEAGUE_IDS[1], LEAGUE_IDS[2]},
                  s \in {"all", "remaining", "chopped"}}
  IN UNION {{[fn |-> "renderChart", timelines |-> v, animationProgress |-> p,
              st |-> [hoveredTeamIndex |-> h, staticMaxWeek |-> maxWeek,
                      teamColorMap |-> assignColors(base)]] :
               p \in 0..REPLAY_DURATION_MS, h \in 0..Len(v)} : v \in views}

InitChart ==
  /\ cache = [leagues |-> emptyMap, rosters |-> emptyMap, transactions |-> emptyMap]
  /\ InitModuleState
  /\ callResult = noResult
  /\ \E c \in ChartCaches, maxWeek \in {MaxWeek, MaxWeek + 1} :
       callArgs \in renderCallsOf(c, maxWeek)

\* The call returns: the svg, and its geometry.
renderChartReturns ==
  /\ callArgs.fn = "renderChart"
  /\ ~callResult.returned
  /\ callResult' = [returned |-> TRUE,
                    svg |-> renderChart(callArgs.timelines, callArgs.animationProgress,
                                        callArgs.st),
                    geometry |-> geometryOf(callArgs.timelines, callArgs.animationProgress,
                                            callArgs.st)]
  /\ UNCHANGED <<cache, viewVars, now, lastOp, callArgs>>

NextChart == renderChartReturns

SpecChart == InitChart /\ [][NextChart]_vars

(***************************************************************************)
(* SpecCurve: createSmoothPath on point lists of the kind renderChart      *)
(* gives it: up to MaxPoints points in time order whose fab does not       *)
(* increase, the last one with or without the position of an avatar.       *)
(***************************************************************************)
FabSamples == {0, 850, 910, 1000}

CurvePoints ==
  {[week |-> w, weekProgress |-> Q(0, 1), fab |-> Q(f, 1), timestamp |-> 0] :
     w \in 0..MaxWeek, f \in FabSamples}

inTimeOrder(points) ==
  \A i \in 1..(Len(points) - 1) :
    /\ points[i].week <= points[i + 1].week
    /\ qLe(points[i + 1].fab, points[i].fab)

CurveInputs ==
  UNION {{points \in [1..n -> CurvePoints] : inTimeOrder(points)} : n \in 0..MaxPoints}

\* The avatar of the last point, moved by one step of the declutter pass.
withAvatar(points, maxWeek) ==
  LET base == baseEndpointOf(points, maxWeek)
  IN adjustedPointsOf(points, qAdd(base.x, Q(JITTER_OFFSET, 2)),
                      qAdd(base.y, Q(JITTER_OFFSET, 1)))

InitCurve ==
  /\ cache = [leagues |-> emptyMap, rosters |-> emptyMap, transactions |-> emptyMap]
  /\ InitModuleState
  /\ callResult = noResult
  /\ \E points \in CurveInputs :
       callArgs \in {[fn |-> "createSmoothPath", points |-> points, maxWeek |-> MaxWeek]}
                     \cup (IF Len(points) > 0
                             THEN {[fn |-> "createSmoothPath",
                                    points |-> withAvatar(points, MaxWeek),
                                    maxWeek |-> MaxWeek]}
                             ELSE {})

createSmoothPathReturns ==
  /\ callArgs.fn = "createSmoothPath"
  /\ ~callResult.returned
  /\ callResult' = [returned |-> TRUE,
                    path |-> createSmoothPath(callArgs.points, callArgs.maxWeek)]
  /\ UNCHANGED <<cache, viewVars, now, lastOp, callArgs>>

NextCurve == createSmoothPathReturns

SpecCurve == InitCurve /\ [][NextCurve]_vars

(***************************************************************************)
(* Properties of the reconstructor (SpecRecon).                            *)
(***************************************************************************)
reconLeague == LEAGUE_IDS[1]
reconstructed == container = "static"
cachedLeague == cache.leagues[reconLeague]
cachedRosters == cacheGet(cache.rosters, reconLeague, <<>>)
cachedTx == cacheGet(cache.transactions, reconLeague, <<>>)
cachedRosterIds == {cachedRosters[i].roster_id : i \in DOMAIN cachedRosters}

txOfRoster(tx, rosterId) == hasRoster(tx) /\ tx.roster_ids[1] = rosterId
participates(tx) == tx.status = "complete" /\ tx.type = "waiver"

\* The events folded into the timeline of rosterId, in the order of the fold.
foldedEventsOf(rosterId) ==
  SelectSeq(sortedTxOf(cachedTx), LAMBDA tx : txOfRoster(tx, rosterId))

RECURSIVE sumBids(_)
sumBids(txs) == IF txs = <<>> THEN 0 ELSE bidOf(Head(txs)) + sumBids(Tail(txs))

withoutIndex(seq, i) == SubSeq(seq, 1, i - 1) \o SubSeq(seq, i + 1, Len(seq))
cacheWithTx(txs) == [cache EXCEPT !.transactions = mapSet(@, reconLeague, txs)]

\* C1: every point produced by an event has the value of the point before
\* it minus the bid of that event.
C1_MonotonicFold ==
  reconstructed =>
    \A k \in DOMAIN baseTimelines :
      LET t == baseTimelines[k]
          events == foldedEventsOf(t.rosterId)
      IN \A i \in 1..(Len(t.points) - 1) :
           /\ i <= Len(events)
           /\ t.points[i + 1].fab = t.points[i].fab - bidOf(events[i])

\* A timeline with two events of bid 1 after the origin at the full budget.
C1_Witness ==
  /\ reconstructed
  /\ \E k \in DOMAIN baseTimelines :
       LET pts == baseTimelines[k].points
       IN /\ Len(pts) = 3
          /\ pts[1].fab = MaxCap /\ pts[2].fab = MaxCap - 1 /\ pts[3].fab = MaxCap - 2

\* C2: in every timeline, week + weekProgress never decreases from a point
\* to the next.
C2_NonDecreasingInTime ==
  reconstructed =>
    \A k \in DOMAIN baseTimelines :
      LET pts == baseTimelines[k].points
      IN \A i \in 1..(Len(pts) - 1) : positionOf(pts[i]) <= positionOf(pts[i + 1])

\* C3: one timeline per roster, each starting at the origin point with the
\* full budget.
C3_OnePerRosterFromOrigin ==
  reconstructed =>
    /\ Len(baseTimelines) = Cardinality(cachedRosterIds)
    /\ \A id \in cachedRosterIds :
         Cardinality({k \in DOMAIN baseTimelines : baseTimelines[k].rosterId = id}) = 1
    /\ \A k \in DOMAIN baseTimelines :
         baseTimelines[k].points[1] =
           [week |-> 0, weekProgress |-> 0,
            fab |-> waiverCapOf(cachedLeague), timestamp |-> 0]

\* Two rosters, one of which has used part of its budget and has bid.
C3_Witness ==
  /\ reconstructed
  /\ Len(baseTimelines) = 2
  /\ \E k \in DOMAIN baseTimelines :
       /\ baseTimelines[k].currentFab < waiverCapOf(cachedLeague)
       /\ Len(baseTimelines[k].points) > 1

\* C4: after the origin, the points of every timeline are in ascending
\* (week, recorded timestamp) order.
C4_AscendingWeekThenTimestamp ==
  reconstructed =>
    \A k \in DOMAIN baseTimelines :
      LET pts == baseTimelines[k].points
      IN \A i \in 2..(Len(pts) - 1) :
           \/ pts[i].week < pts[i + 1].week
           \/ pts[i].week = pts[i + 1].week /\ pts[i].timestamp <= pts[i + 1].timestamp

\* C5: a timeline has the origin and one point per complete waiver event of
\* its roster, and the events of another status or type change nothing.
C5_OnlyCompleteWaivers ==
  reconstructed =>
    /\ \A k \in DOMAIN baseTimelines :
         Len(baseTimelines[k].points) =
           1 + Cardinality({i \in DOMAIN cachedTx :
                              /\ participates(cachedTx[i])
                              /\ txOfRoster(cachedTx[i], baseTimelines[k].rosterId)})
    /\ computeFABTimeline(cacheWithTx(SelectSeq(cachedTx, participates)), reconLeague)
         = [threw |-> FALSE, value |-> baseTimelines]

\* A failed or non-waiver event of a roster that also has a complete waiver.
C5_Witness ==
  /\ reconstructed
  /\ \E i, j \in DOMAIN cachedTx, id \in cachedRosterIds :
       /\ txOfRoster(cachedTx[i], id) /\ ~participates(cachedTx[i])
       /\ txOfRoster(cachedTx[j], id) /\ participates(cachedTx[j])

\* C6: an event of a roster that is not in the league is dropped: the run
\* completes with the timelines of the log without that event.
C6_UnknownRosterDropped ==
  reconstructed =>
    \A i \in DOMAIN cachedTx :
      (hasRoster(cachedTx[i]) /\ cachedTx[i].roster_ids[1] \notin cachedRosterIds)
        => computeFABTimeline(cacheWithTx(withoutIndex(cachedTx, i)), reconLeague)
             = [threw |-> FALSE, value |-> baseTimelines]

\* A complete waiver of an unknown roster, sorted before a complete waiver
\* of a known one.
C6_Witness ==
  /\ reconstructed
  /\ LET sorted == sortedTxOf(cachedTx)
     IN \E i, j \in DOMAIN sorted :
          /\ i < j
          /\ hasRoster(sorted[i]) /\ sorted[i].roster_ids[1] \notin cachedRosterIds
          /\ hasRoster(sorted[j]) /\ sorted[j].roster_ids[1] \in cachedRosterIds

capMissing ==
  /\ Has(cache.leagues, reconLeague)
  /\ ~(Has(cachedLeague, "settings") /\ Has(cachedLeague.settings, "waiver_budget"))

\* C7 as stated: without a budget every value of every timeline is 0.
C7_AllValuesZero ==
  (reconstructed /\ capMissing) =>
    \A k \in DOMAIN baseTimelines :
      \A i \in DOMAIN baseTimelines[k].points : baseTimelines[k].points[i].fab = 0

\* C7 amended: a load over a cached league without a budget completes, every
\* timeline starts at 0 and each later value is 0 minus the bids folded so
\* far.
C7_ZeroCapMinusBids ==
  [][(capMissing /\ container' # container) =>
       /\ container' = "static"
       /\ \A k \in DOMAIN baseTimelines' :
            LET pts == baseTimelines'[k].points
                events == foldedEventsOf(baseTimelines'[k].rosterId)
            IN /\ pts[1].fab = 0
               /\ \A i \in 2..Len(pts) : pts[i].fab = 0 - sumBids(SubSeq(events, 1, i - 1))]_vars

\* No budget, and a timeline with a non-zero bid.
C7_Witness ==
  /\ reconstructed /\ capMissing
  /\ \E k \in DOMAIN baseTimelines : Len(baseTimelines[k].points) > 1
                                       /\ lastOf(baseTimelines[k].points).fab < 0

\* C8 as stated: the last value of a timeline is the roster's current FAB.
C8_Conservation ==
  reconstructed =>
    \A k \in DOMAIN baseTimelines :
      lastOf(baseTimelines[k].points).fab = baseTimelines[k].currentFab

completeWaiverBidsOf(rosterId) ==
  sumBids(SelectSeq(cachedTx, LAMBDA tx : participates(tx) /\ txOfRoster(tx, rosterId)))

rosterOf(rosterId) ==
  cachedRosters[CHOOSE i \in DOMAIN cachedRosters : cachedRosters[i].roster_id = rosterId]

\* C8 amended: the last value is the budget minus the bids of the roster's
\* complete waiver events in the loaded log; it is the roster's current FAB
\* exactly when waiver_budget_used is the sum of those bids.
C8_LastValueIsCapMinusBids ==
  reconstructed =>
    \A k \in DOMAIN baseTimelines :
      LET t == baseTimelines[k]
          bids == completeWaiverBidsOf(t.rosterId)
      IN /\ lastOf(t.points).fab = waiverCapOf(cachedLeague) - bids
         /\ (lastOf(t.points).fab = t.currentFab) <=> (usedFabOf(rosterOf(t.rosterId)) = bids)

\* A roster whose waiver_budget_used is the sum of its bids, and one whose
\* is not.
C8_Witness ==
  /\ reconstructed
  /\ \E k \in DOMAIN baseTimelines :
       /\ Len(baseTimelines[k].points) > 1
       /\ lastOf(baseTimelines[k].points).fab = baseTimelines[k].currentFab
  /\ \E k \in DOMAIN baseTimelines :
       lastOf(baseTimelines[k].points).fab # baseTimelines[k].currentFab

(***************************************************************************)
(* Empty inputs, checked under SpecView.                                   *)
(***************************************************************************)
loaded == hasControls

leagueIdSet == {LEAGUE_IDS[i] : i \in DOMAIN LEAGUE_IDS}

timelinesOf(leagueId) == computeFABTimeline(cache, leagueId)

emptyRoster(leagueId) == cache.rosters[leagueId] = <<>>

emptyLog(leagueId) == cache.transactions[leagueId] = <<>>

\* C9 as stated: a league with no roster or with no transaction is
\* reconstructed to nothing, and an empty collection is filtered to an
\* empty collection and rendered to an empty svg.
C9_EmptyInputsEmptyResult ==
  loaded =>
    /\ \A leagueId \in leagueIdSet :
         emptyRoster(leagueId) \/ emptyLog(leagueId) =>
           timelinesOf(leagueId) = [threw |-> FALSE, value |-> <<>>]
    /\ visibleTimelines(moduleState) = <<>> => chart = noChart

\* C9, amended: a league with no roster is reconstructed to nothing; a
\* league with rosters and no transaction is reconstructed to one timeline
\* per roster that holds the origin point only; with no roster in any
\* league the load completes with no timeline; and whenever the filters
\* leave no timeline, in the static, the playing and the paused view, the
\* chart is the empty svg.
C9_EmptyRosterEmptyView ==
  /\ loaded =>
       /\ \A leagueId \in leagueIdSet :
            emptyRoster(leagueId) =>
              timelinesOf(leagueId) = [threw |-> FALSE, value |-> <<>>]
       /\ \A leagueId \in leagueIdSet :
            emptyLog(leagueId) =>
              LET r == timelinesOf(leagueId)
              IN /\ ~r.threw
                 /\ Len(r.value) = Len(cache.rosters[leagueId])
                 /\ \A k \in DOMAIN r.value :
                      /\ Len(r.value[k].points) = 1
                      /\ r.value[k].points[1].fab = waiverCapOf(cache.leagues[leagueId])
       /\ visibleTimelines(moduleState) = <<>> => chart = noChart
  /\ (container # "blank" /\ \A leagueId \in leagueIdSet : emptyRoster(leagueId)) =>
       /\ loaded
       /\ baseTimelines = <<>>
       /\ chart = noChart

\* A replay in progress over no timeline at all, and the empty svg drawn.
C9_Witness ==
  /\ container = "playing"
  /\ isAnimating
  /\ 0 < currentAnimationProgress
  /\ currentAnimationProgress < REPLAY_DURATION_MS
  /\ baseTimelines = <<>>
  /\ \A leagueId \in leagueIdSet : emptyRoster(leagueId)
  /\ chart = noChart

(***************************************************************************)
(* The view filter, checked under SpecView.                                *)
(***************************************************************************)
inGroupScope(t) == currentFilter = "both" \/ t.leagueId = currentFilter

inStatusScope(t) ==
  \/ currentTeamStatusFilter = "all"
  \/ currentTeamStatusFilter = "remaining" /\ ~t.isEliminated
  \/ currentTeamStatusFilter = "chopped" /\ t.isEliminated

\* The places of a timeline of baseTimelines in the filtered list.
placesOf(out, i) == {k \in DOMAIN out : teamKeyOf(out[k]) = teamKeyOf(baseTimelines[i])}

\* The index in baseTimelines of an element of the filtered list.
sourceIndexOf(t) == CHOOSE i \in DOMAIN baseTimelines : baseTimelines[i] = t

\* C11: the filtered list holds each timeline that is in the league scope
\* and in the status scope exactly once, unchanged, and nothing else.
C11_FilterIsConjunction ==
  loaded =>
    LET out == visibleTimelines(moduleState)
    IN /\ \A i \in DOMAIN baseTimelines :
            Cardinality(placesOf(out, i)) =
              IF inGroupScope(baseTimelines[i]) /\ inStatusScope(baseTimelines[i]) THEN 1 ELSE 0
       /\ \A k \in DOMAIN out : \E i \in DOMAIN baseTimelines : out[k] = baseTimelines[i]

\* One league and one status selected, over the timelines of two leagues
\* that both have a team of the status and a team of the other status.
C11_Witness ==
  /\ loaded
  /\ currentFilter = LEAGUE_IDS[2]
  /\ currentTeamStatusFilter = "chopped"
  /\ Len(baseTimelines) = 4
  /\ Len(visibleTimelines(moduleState)) = 1
  /\ lastOp = "teamStatusFilter"

\* C12: the filtered list is in descending order of the fab of the last
\* point, and timelines of equal last fab are in their order in
\* baseTimelines.
C12_DescendingStable ==
  loaded =>
    LET out == visibleTimelines(moduleState)
    IN \A j, k \in DOMAIN out :
         j < k =>
           /\ lastOf(out[j].points).fab >= lastOf(out[k].points).fab
           /\ lastOf(out[j].points).fab = lastOf(out[k].points).fab
                => sourceIndexOf(out[j]) < sourceIndexOf(out[k])

\* A list in which the sort moved a timeline forward and left two of equal
\* last fab in their order.
C12_Witness ==
  /\ loaded
  /\ LET out == visibleTimelines(moduleState)
     IN /\ \E j, k \in DOMAIN out :
             j < k /\ lastOf(out[j].points).fab = lastOf(out[k].points).fab
        /\ \E j, k \in DOMAIN out :
             j < k /\ sourceIndexOf(out[j]) > sourceIndexOf(out[k])

(***************************************************************************)
(* The replay controller and the pointer, checked under SpecReplay.        *)
(***************************************************************************)
Idle == container = "static"
Playing == container = "playing"
Paused == container = "paused"

\* The colour that the load gave to the team of a line: CHART_COLORS[index %
\* 15] for its index in baseTimelines.
colorAtLoad(teamKey) ==
  LET i == CHOOSE j \in DOMAIN baseTimelines : teamKeyOf(baseTimelines[j]) = teamKey
  IN (i - 1) % CHART_COLORS_length

\* C13: once the data is loaded, no step changes baseTimelines or
\* teamColorMap, and every line of every chart drawn has the colour its
\* team was given at the load.
C13_OnlyLoadWritesTimelines ==
  [][container # "blank" =>
       /\ baseTimelines' = baseTimelines
       /\ teamColorMap' = teamColorMap
       /\ \A k \in DOMAIN chart'.lines :
            chart'.lines[k].teamColor = colorAtLoad(chart'.lines[k].teamKey)]_vars

\* A hover during a replay of one league: the line hovered is the first of
\* the chart and the third of baseTimelines.
C13_Witness ==
  /\ Playing
  /\ lastOp = "mouseenter"
  /\ currentFilter = LEAGUE_IDS[2]
  /\ hoveredTeamIndex = 1
  /\ \E k \in DOMAIN chart.lines :
       /\ chart.lines[k].originalIndex = 1
       /\ chart.lines[k].teamColor = 2

\* C14 as stated: startReplay in Idle begins a replay at progress 0 with one
\* frame pending, and startReplay in Paused changes nothing.
C14_StartOnlyFromIdle ==
  /\ Idle =>
       LET r == startReplay(moduleState, now)
       IN /\ r.container = "playing" /\ r.isAnimating /\ ~r.isPaused
          /\ r.currentAnimationProgress = 0
          /\ Cardinality(r.frames) = 1
  /\ Paused => startReplay(moduleState, now) = moduleState

\* C15: startReplay during a replay changes nothing: the flags, the
\* progress, the chart and the pending frame are as they were.
C15_StartWhilePlayingNoOp ==
  Playing => startReplay(moduleState, now) = moduleState

\* A replay under way, a frame pending, and startReplay applied to it.
C15_Witness ==
  /\ Playing
  /\ isAnimating
  /\ 0 < currentAnimationProgress
  /\ Cardinality(frames) = 1
  /\ startReplay(moduleState, now).frames = frames

pauseStep == Playing /\ lastOp' = "pauseReplay" /\ now' = now

\* C16: a pause during a replay ends Paused with the progress of the chart
\* last drawn recorded as pausedProgress and currentAnimationProgress and
\* the pending frame cancelled; in Paused no frame is pending, and from one
\* Paused state to the next the progress is the same.
C16_PauseRecordsAndCancels ==
  [][/\ pauseStep =>
          /\ Paused' /\ isPaused' /\ ~isAnimating'
          /\ pausedProgress' = chart.animationProgress
          /\ currentAnimationProgress' = chart.animationProgress
          /\ chart'.animationProgress = chart.animationProgress
          /\ animationFrameId' = Null
     /\ Paused' => frames' = {}
     /\ (Paused /\ Paused') =>
          /\ pausedProgress' = pausedProgress
          /\ currentAnimationProgress' = currentAnimationProgress
          /\ chart'.animationProgress = chart.animationProgress]_vars

\* Paused in the middle of a replay, then a filter change.
C16_Witness ==
  /\ Paused
  /\ lastOp = "leagueFilter"
  /\ 0 < pausedProgress /\ pausedProgress < REPLAY_DURATION_MS
  /\ currentFilter # "both"
  /\ frames = {}

\* The progress that the pending frame f computes when it runs e after now.
progressAfter(st, f, e) ==
  animate([st EXCEPT !.frames = @ \ {f}], f.startTime, now + e).currentAnimationProgress

\* C17: resumeReplay(p) in Paused, and in Idle for every p below 1, ends
\* Playing with the first chart drawn at p, and the frame it requests
\* computes min(p + elapsed, 1) whatever the time spent before the call.
C17_ResumeContinuesFromProgress ==
  [][/\ (Paused \/ Idle) =>
          \A p \in (IF Paused THEN {currentAnimationProgress}
                    ELSE 0..(REPLAY_DURATION_MS - 1)) :
            LET r == resumeReplay(moduleState, p, now)
            IN /\ r.container = "playing" /\ r.isAnimating /\ ~r.isPaused
               /\ r.currentAnimationProgress = p
               /\ r.chart.animationProgress = p
               /\ Cardinality(r.frames) = 1
               /\ \A f \in r.frames : \A e \in 0..REPLAY_DURATION_MS :
                    progressAfter(r, f, e) = Min(p + e, REPLAY_DURATION_MS)
     /\ (Paused /\ lastOp' = "resumeReplay" /\ now' = now) =>
          /\ Playing'
          /\ currentAnimationProgress' = pausedProgress
          /\ \A f \in frames' : f.startTime = now - pausedProgress]_vars

\* A replay resumed at a progress that is behind the clock of the replay:
\* time has passed in Paused.
C17_Witness ==
  /\ Playing
  /\ lastOp = "resumeReplay"
  /\ 0 < currentAnimationProgress
  /\ currentAnimationProgress < now
  /\ \E f \in frames : f.startTime = now - currentAnimationProgress /\ f.startTime > 0

progressInBounds(p) == 0 <= p /\ p <= REPLAY_DURATION_MS

\* C18: every progress kept or drawn is in [0,1], and from one Playing
\* state to the next state, Playing or Idle, the progress does not decrease.
C18_ProgressBoundedMonotonic ==
  /\ [](/\ progressInBounds(currentAnimationProgress)
        /\ progressInBounds(pausedProgress)
        /\ ~chart.empty => progressInBounds(chart.animationProgress))
  /\ [][(Playing /\ (Playing' \/ Idle')) =>
          /\ currentAnimationProgress' >= currentAnimationProgress
          /\ chart'.animationProgress >= chart.animationProgress]_vars

\* A replay restarted by a filter change in its second half.
C18_Witness ==
  /\ Playing
  /\ lastOp = "teamStatusFilter"
  /\ currentTeamStatusFilter = "remaining"
  /\ 2 * currentAnimationProgress >= REPLAY_DURATION_MS
  /\ chart.animationProgress = currentAnimationProgress

completingFrame ==
  Playing /\ lastOp' = "animationFrame" /\ currentAnimationProgress' = REPLAY_DURATION_MS

\* C19 as stated: the frame that computes progress 1.0 ends Idle with no
\* frame pending, and has run the extend pass once.
C19_ExtendOnceAtCompletion ==
  [][completingFrame =>
       /\ Idle' /\ ~isAnimating' /\ ~isPaused'
       /\ frames' = {}
       /\ extendSteps' = 1]_vars

filterStep == lastOp' \in {"leagueFilter", "teamStatusFilter"} /\ now' = now

\* C20: a filter change during a replay ends Playing at the progress it
\* began with, the frame that was pending is gone, one new frame is
\* pending, and the chart drawn and the chart of that frame are those of
\* the timelines under the new filters.
C20_FilterKeepsProgress ==
  [][(Playing /\ filterStep) =>
       /\ Playing' /\ isAnimating' /\ ~isPaused'
       /\ currentAnimationProgress' = currentAnimationProgress
       /\ Cardinality(frames') = 1
       /\ \A f \in frames', g \in frames : f.id # g.id
       /\ LET timelines == filterTimelinesForView(baseTimelines, currentFilter',
                                                  currentTeamStatusFilter')
          IN /\ chart' = renderChart(timelines, currentAnimationProgress, moduleState')
             /\ \A f \in frames' :
                  animate([moduleState' EXCEPT !.frames = @ \ {f}], f.startTime, now).chart
                    = renderChart(timelines, currentAnimationProgress, moduleState')]_vars

\* A replay under way on one league after a change of the league filter.
C20_Witness ==
  /\ Playing
  /\ lastOp = "leagueFilter"
  /\ currentFilter = LEAGUE_IDS[1]
  /\ 0 < currentAnimationProgress
  /\ Cardinality(frames) = 1
  /\ Len(chart.lines) = 2

(***************************************************************************)
(* Properties of renderChart (SpecChart).                                  *)
(***************************************************************************)
rendered == callArgs.fn = "renderChart" /\ callResult.returned
atFullProgress == callArgs.animationProgress = REPLAY_DURATION_MS
renderedMaxWeek == callArgs.st.staticMaxWeek
timelineOfLine(line) == callArgs.timelines[line.originalIndex]

\* The furthest week + weekProgress that a point of a non-eliminated
\* timeline of the list reaches (0 when there is none).
furthestReached(timelines) ==
  LET reached == {positionOf(lastOf(timelines[i].points)) :
                    i \in {j \in DOMAIN timelines : ~timelines[j].isEliminated}}
  IN IF reached = {} THEN 0 ELSE CHOOSE m \in reached : \A r \in reached : r <= m

\* shown is points, or points and one more point with the last fab, and it
\* ends at position.
endsFlatAt(shown, points, position) ==
  /\ positionOf(lastOf(shown)) = position
  /\ \/ shown = points
     \/ /\ Len(shown) = Len(points) + 1
        /\ SubSeq(shown, 1, Len(points)) = points
        /\ lastOf(shown).fab = lastOf(points).fab

\* C21 as stated: at full progress the line of every team that is not
\* eliminated ends, by at most one flat trailing point, at the furthest
\* position that a non-eliminated team of the list reaches.
C21_EndAtFurthestReached ==
  (rendered /\ atFullProgress) =>
    \A k \in DOMAIN callResult.svg.lines :
      LET line == callResult.svg.lines[k]
      IN ~timelineOfLine(line).isEliminated =>
           endsFlatAt(line.visiblePoints, timelineOfLine(line).points,
                      furthestReached(callArgs.timelines))

\* C21: at full progress the line of every team that is not eliminated
\* ends, by at most one flat trailing point carrying its last value, at
\* the horizon: the current week, or the furthest position that a
\* non-eliminated team of the list drawn reaches when that is later. All
\* these lines end at the same position.
C21_EndAtHorizon ==
  (rendered /\ atFullProgress) =>
    \A k \in DOMAIN callResult.svg.lines :
      LET line == callResult.svg.lines[k]
      IN ~timelineOfLine(line).isEliminated =>
           endsFlatAt(line.visiblePoints, timelineOfLine(line).points,
                      Max(renderedMaxWeek * weekDurationMs,
                          furthestReached(callArgs.timelines)))

\* A chart at full progress where a team's last bid is later than the
\* current week's start: its line is not extended and the line of another
\* team is, by one flat point, to the same position.
C21_Witness ==
  /\ rendered /\ atFullProgress
  /\ furthestReached(callArgs.timelines) > renderedMaxWeek * weekDurationMs
  /\ \E k, m \in DOMAIN callResult.svg.lines :
       LET a == callResult.svg.lines[k]
           b == callResult.svg.lines[m]
       IN /\ ~timelineOfLine(a).isEliminated /\ ~timelineOfLine(b).isEliminated
          /\ a.visiblePoints = timelineOfLine(a).points
          /\ Len(b.visiblePoints) = Len(timelineOfLine(b).points) + 1
          /\ positionOf(lastOf(a.visiblePoints)) = positionOf(lastOf(b.visiblePoints))

\* The line is that of a team eliminated in week E whose bids are all of
\* earlier weeks, drawn at a progress that is at week E or later.
pastElimination(line) ==
  LET t == timelineOfLine(line)
  IN /\ t.isEliminated
     /\ t.eliminatedWeek # Null
     /\ \A i \in DOMAIN t.points : t.points[i].week < t.eliminatedWeek
     /\ renderedMaxWeek * callArgs.animationProgress >= t.eliminatedWeek * REPLAY_DURATION_MS

\* The flat point (E, 0, last value) of a timeline.
eliminationPoint(t) ==
  [week |-> t.eliminatedWeek, weekProgress |-> Q(0, 1),
   fab |-> Q(lastOf(t.points).fab, 1), timestamp |-> lastOf(t.points).timestamp]

\* C22 as stated: at any progress that is at week E or later, the line of
\* a team eliminated in week E whose bids precede E ends with the flat
\* point (E, 0, last value) and has no point after week E.
C22_EndsAtEliminationAnyProgress ==
  rendered =>
    \A k \in DOMAIN callResult.geometry :
      LET line == callResult.geometry[k]
      IN pastElimination(line) =>
           /\ lastOf(line.visiblePoints) = eliminationPoint(timelineOfLine(line))
           /\ \A i \in DOMAIN line.visiblePoints :
                qLe(weekWithProgress(line.visiblePoints[i]),
                    Q(timelineOfLine(line).eliminatedWeek, 1))

\* C22: for a team eliminated in week E whose bids precede E, the line
\* drawn at full progress is its points and then the flat point
\* (E, 0, last value), however later the current week is; at a progress
\* below 1.0 that is at week E or later the line is its points only and
\* ends at its last bid. In both cases no point is after week E.
C22_EndsAtEliminationAtFullProgress ==
  rendered =>
    \A k \in DOMAIN callResult.geometry :
      LET line == callResult.geometry[k]
          t == timelineOfLine(line)
      IN pastElimination(line) =>
           /\ atFullProgress =>
                line.visiblePoints = Append(numberPoints(t.points), eliminationPoint(t))
           /\ ~atFullProgress => line.visiblePoints = numberPoints(t.points)
           /\ \A i \in DOMAIN line.visiblePoints :
                qLe(weekWithProgress(line.visiblePoints[i]), Q(t.eliminatedWeek, 1))

\* A team eliminated in week 2 after a bid in week 1, drawn at full
\* progress when the current week is 3 or later.
C22_Witness ==
  /\ rendered /\ atFullProgress
  /\ \E k \in DOMAIN callResult.geometry :
       LET line == callResult.geometry[k]
           t == timelineOfLine(line)
       IN /\ pastElimination(line)
          /\ Len(t.points) >= 2
          /\ t.eliminatedWeek < renderedMaxWeek
          /\ Len(line.visiblePoints) = Len(t.points) + 1

\* Two positions are nearer than the threshold on both axes.
nearOnBothAxes(ax, ay, bx, by) ==
  /\ qLt(qAbs(qSub(ax, bx)), Q(JITTER_THRESHOLD, 1))
  /\ qLt(qAbs(qSub(ay, by)), Q(JITTER_THRESHOLD, 1))

\* C23: two avatars whose base positions are nearer than the threshold on
\* both axes are, once the offsets are applied, at least the threshold
\* apart on an axis.
C23_DeclutterSeparates ==
  rendered =>
    \A k, m \in DOMAIN callResult.geometry :
      LET a == callResult.geometry[k]
          b == callResult.geometry[m]
      IN (k < m /\ nearOnBothAxes(a.x, a.y, b.x, b.y)) =>
           ~nearOnBothAxes(qAdd(a.x, a.xOffset), qAdd(a.y, a.yOffset),
                           qAdd(b.x, b.xOffset), qAdd(b.y, b.yOffset))

\* Three avatars with one base position: the second and the third get the
\* same offset.
C23_SameOffsetTwice ==
  /\ rendered
  /\ \E k, m, n \in DOMAIN callResult.geometry :
       LET a == callResult.geometry[k]
           b == callResult.geometry[m]
           c == callResult.geometry[n]
       IN /\ k < m /\ m < n
          /\ a.x = b.x /\ a.y = b.y /\ b.x = c.x /\ b.y = c.y
          /\ b.xOffset = c.xOffset /\ b.yOffset = c.yOffset

(***************************************************************************)
(* Properties of the pointer over the chart (SpecReplay).                  *)
(***************************************************************************)
\* The teams whose line a chart draws with the glow and the 4px stroke.
emphasized(svg) ==
  {svg.lines[k].teamKey : k \in {j \in DOMAIN svg.lines : svg.lines[j].filter = "url(#glow)"}}

\* A chart that emphasizes a line draws it alone at full opacity.
othersReduced(svg) ==
  \A k \in DOMAIN svg.lines :
    LET line == svg.lines[k]
    IN IF line.filter = "url(#glow)"
         THEN line.opacity = "1" /\ line.strokeWidth = 4
         ELSE (emphasized(svg) # {} => line.opacity = "0.4") /\ line.strokeWidth = 3

\* The team of the element with data-team-index = index in the chart shown.
teamAt(svg, index) ==
  {svg.lines[k].teamKey : k \in {j \in DOMAIN svg.lines : svg.lines[j].originalIndex = index}}

mouseenterStep == lastOp' = "mouseenter" /\ now' = now

\* C24: a chart emphasizes at most one line and then reduces the others;
\* the re-render of a pointer-enter emphasizes the team entered; and as
\* long as the focus is not changed, a chart that follows one emphasizing
\* a team emphasizes that team.
C24_FocusFollowsEntity ==
  /\ [](Cardinality(emphasized(chart)) <= 1 /\ othersReduced(chart))
  /\ [][/\ (mouseenterStep /\ ~isAnimating) =>
             emphasized(chart') = teamAt(chart, hoveredTeamIndex')
        /\ (~mouseenterStep /\ hoveredTeamIndex # Null /\ hoveredTeamIndex' = hoveredTeamIndex
            /\ emphasized(chart) # {}) =>
             emphasized(chart') = emphasized(chart)]_vars

hoverStep == lastOp' \in {"mouseenter", "mouseleave"} /\ now' = now
frameStep == lastOp' = "animationFrame" /\ now' = now

\* The lines of a chart carry the hover effects of the focus.
showsFocus(svg, focus) ==
  \A k \in DOMAIN svg.lines :
    (svg.lines[k].filter = "url(#glow)") <=> (svg.lines[k].originalIndex = focus)

\* C25: a pointer-enter or pointer-leave that changes the focus while
\* Idle renders the chart once, at the current progress and with the new
\* focus; while Playing it leaves the chart as it is and the pending
\* frames and the frame handle as they are, and the chart of the next
\* frame has the new focus.
C25_HoverRendersWhenIdle ==
  [][/\ (hoverStep /\ hoveredTeamIndex' # hoveredTeamIndex /\ Idle) =>
          /\ chart' = renderChart(visibleTimelines(moduleState), currentAnimationProgress,
                                  [moduleState EXCEPT !.hoveredTeamIndex = hoveredTeamIndex'])
          /\ chart'.animationProgress = currentAnimationProgress
          /\ showsFocus(chart', hoveredTeamIndex')
          /\ extendSteps' = 1
          /\ frames' = frames /\ animationFrameId' = animationFrameId
          /\ Idle'
     /\ (hoverStep /\ hoveredTeamIndex' # hoveredTeamIndex /\ Playing) =>
          /\ chart' = chart
          /\ extendSteps' = 0
          /\ frames' = frames /\ animationFrameId' = animationFrameId
          /\ Playing'
     /\ (frameStep /\ Playing) =>
          /\ hoveredTeamIndex' = hoveredTeamIndex
          /\ showsFocus(chart', hoveredTeamIndex)]_vars

\* The pointer entered a team during a replay: the focus is set and the
\* chart shown, of the last frame, has no line emphasized.
C25_Witness ==
  /\ Playing
  /\ lastOp = "mouseenter"
  /\ hoveredTeamIndex # Null
  /\ ~chart.empty
  /\ hoveredTeamIndex \in {chart.lines[k].originalIndex : k \in DOMAIN chart.lines}
  /\ ~showsFocus(chart, hoveredTeamIndex)
  /\ frames # {}

\* The team of a line drawn has an elimination week and the progress of
\* the call is at that week or later.
pastEliminationPoint(line) ==
  LET t == timelineOfLine(line)
  IN /\ t.isEliminated
     /\ t.eliminatedWeek # Null
     /\ renderedMaxWeek * callArgs.animationProgress >= t.eliminatedWeek * REPLAY_DURATION_MS

\* C26: in every chart, the line and the avatar of a team that is past its
\* elimination week at the progress drawn are gray ('#999', '#ccc'),
\* whether the team is hovered or not, and those of any other team have
\* the colour of the team.
C26_ChoppedIffPastElimination ==
  rendered =>
    \A k \in DOMAIN callResult.svg.lines :
      LET line == callResult.svg.lines[k]
      IN /\ pastEliminationPoint(line) =>
              line.stroke = <<"#999">> /\ line.circleFill = <<"#ccc">>
         /\ ~pastEliminationPoint(line) =>
              /\ line.stroke = <<"CHART_COLORS", callArgs.st.teamColorMap[line.teamKey]>>
              /\ line.circleFill = line.stroke

\* A chart below full progress with a hovered team that is past its
\* elimination week and drawn gray, and an eliminated team that is not yet
\* past it and drawn in its colour.
C26_Witness ==
  /\ rendered /\ ~atFullProgress
  /\ \E k, m \in DOMAIN callResult.svg.lines :
       LET a == callResult.svg.lines[k]
           b == callResult.svg.lines[m]
       IN /\ pastEliminationPoint(a)
          /\ callArgs.st.hoveredTeamIndex = a.originalIndex
          /\ a.stroke = <<"#999">>
          /\ timelineOfLine(b).isEliminated /\ ~pastEliminationPoint(b)
          /\ b.stroke # <<"#999">>

\* C27: in every chart, the line of a team that is eliminated at the
\* progress drawn has opacity 0.3, or 0.6 when it is the hovered one; a
\* hovered line that is not has the glow and the 4px stroke; and any other
\* line has opacity 0.4 while a team is hovered.
C27_OpacityOfEliminated ==
  rendered =>
    \A k \in DOMAIN callResult.svg.lines :
      LET line == callResult.svg.lines[k]
          isHovered == callArgs.st.hoveredTeamIndex = line.originalIndex
      IN /\ line.isEliminatedAtCurrentTime =>
              line.opacity = (IF isHovered THEN "0.6" ELSE "0.3")
         /\ (~line.isEliminatedAtCurrentTime /\ isHovered) =>
              line.filter = "url(#glow)" /\ line.strokeWidth = 4
         /\ (~line.isEliminatedAtCurrentTime /\ ~isHovered
             /\ callArgs.st.hoveredTeamIndex # Null) =>
              line.opacity = "0.4"

(***************************************************************************)
(* Properties of createSmoothPath (SpecCurve).                             *)
(***************************************************************************)
pathReturned == callArgs.fn = "createSmoothPath" /\ callResult.returned

\* Where the curve spec maps a point to.
mappedX(point) == xScale(weekWithProgress(point), callArgs.maxWeek)
mappedY(point) == yScale(point.fab)

\* The coordinate of point i of the list given: the position of the
\* avatar for a last point that carries one, else where it maps to.
coordinateOf(points, i) ==
  IF i = Len(points) /\ Has(points[i], "_overrideX")
    THEN <<points[i]._overrideX, points[i]._overrideY>>
    ELSE <<mappedX(points[i]), mappedY(points[i])>>

\* Where a command of a path ends.
endOf(command) == <<command[Len(command) - 1], command[Len(command)]>>

\* C28: the path of no point is empty; the path of one point is one
\* move-to at its coordinate; the path of N >= 2 points is a move-to at
\* the first point and then N - 1 cubic segments and nothing else,
\* segment i ending at the coordinate of point i and leaving from the end
\* of the command before it (its control points are laid from there).
C28_PathShape ==
  pathReturned =>
    LET points == callArgs.points
        path == callResult.path
        n == Len(points)
    IN /\ n = 0 => path = <<>>
       /\ n = 1 => path = << <<"M", coordinateOf(points, 1)[1], coordinateOf(points, 1)[2]>> >>
       /\ n >= 2 =>
            /\ Len(path) = n
            /\ path[1] = <<"M", mappedX(points[1]), mappedY(points[1])>>
            /\ \A i \in 2..n :
                 /\ Len(path[i]) = 7 /\ path[i][1] = "C"
                 /\ endOf(path[i]) = coordinateOf(points, i)
                 /\ qSub(qMul(Q(10, 1), path[i][3]), path[i][7])
                      = qMul(Q(9, 1), endOf(path[i - 1])[2])
                 /\ qSub(qAdd(path[i][2], path[i][4]), path[i][6])
                      = endOf(path[i - 1])[1]

\* A path of MaxPoints points of different weeks and values.
C28_Witness ==
  /\ pathReturned
  /\ Len(callArgs.points) = MaxPoints
  /\ Len(callResult.path) = MaxPoints
  /\ \A i \in 1..(MaxPoints - 1) :
       /\ callArgs.points[i].week < callArgs.points[i + 1].week
       /\ callArgs.points[i].fab # callArgs.points[i + 1].fab

\* The segments of the path returned whose two points differ in x: their
\* tension can be read from the first control point.
slantedSegments ==
  {i \in 2..Len(callArgs.points) :
     mappedX(callArgs.points[i - 1]) # coordinateOf(callArgs.points, i)[1]}

\* The tension segment i was drawn with: (cp1x - prevX) / (x - prevX).
tensionUsed(i) ==
  LET prevX == mappedX(callArgs.points[i - 1])
  IN qDiv(qSub(callResult.path[i][2], prevX), qSub(callResult.path[i][6], prevX))

\* The magnitude of the value change of segment i.
fabDropOf(i) == qAbs(qSub(callArgs.points[i].fab, callArgs.points[i - 1].fab))

\* C29: the tension of every segment is in [0.3, 0.6], whatever the value
\* change of its two points, and of two segments the one with the larger
\* change does not have the larger tension.
C29_TensionClampedAndMonotone ==
  pathReturned =>
    /\ \A i \in slantedSegments :
         qLe(Q(3, 10), tensionUsed(i)) /\ qLe(tensionUsed(i), Q(6, 10))
    /\ \A i, j \in slantedSegments :
         qLe(fabDropOf(i), fabDropOf(j)) => qLe(tensionUsed(j), tensionUsed(i))

\* A path with a segment of a change of 90, at tension 0.55, and one of a
\* change of 850 or more, at tension 0.3.
C29_Witness ==
  /\ pathReturned
  /\ \E i, j \in slantedSegments :
       /\ fabDropOf(i) = Q(90, 1) /\ tensionUsed(i) = Q(55, 100)
       /\ qLe(Q(850, 1), fabDropOf(j)) /\ tensionUsed(j) = Q(3, 10)

\* C30: in every chart, the path of a line has one command per visible
\* point; the command of every point but the last ends where the point
\* maps to, and the last ends at the avatar, the base endpoint moved by
\* the declutter offset. The visible points themselves carry no override
\* and their last still maps to the base endpoint.
C30_OverrideOnLastPointOnly ==
  rendered =>
    \A k \in DOMAIN callResult.geometry :
      LET line == callResult.geometry[k]
          points == line.visiblePoints
          n == Len(points)
      IN /\ Len(line.pathData) = n
         /\ \A i \in 1..(n - 1) :
              endOf(line.pathData[i])
                = <<xScale(weekWithProgress(points[i]), renderedMaxWeek), yScale(points[i].fab)>>
         /\ endOf(line.pathData[n])
              = <<qAdd(line.x, line.xOffset), qAdd(line.y, line.yOffset)>>
         /\ \A i \in 1..n : ~Has(points[i], "_overrideX") /\ ~Has(points[i], "_overrideY")
         /\ <<line.x, line.y>>
              = <<xScale(weekWithProgress(points[n]), renderedMaxWeek), yScale(points[n].fab)>>

\* A line of three points or more whose avatar is moved off its base
\* endpoint.
C30_Witness ==
  /\ rendered
  /\ \E k \in DOMAIN callResult.geometry :
       LET line == callResult.geometry[k]
       IN /\ Len(line.visiblePoints) >= 3
          /\ line.xOffset # Q(0, 1) /\ line.yOffset # Q(0, 1)
          /\ endOf(lastOf(line.pathData)) # <<line.x, line.y>>

(***************************************************************************)
(* The frame loop of the replay controller (SpecReplay).                   *)
(***************************************************************************)
\* C31: from the load on, after every handler, at most one frame callback
\* is pending, one is pending exactly when the controller is Playing, and
\* the one pending is the one whose handle the controller holds.
C31_OneFramePendingIffPlaying ==
  container # "blank" =>
    /\ Cardinality(frames) <= 1
    /\ frames # {} <=> Playing
    /\ Playing <=> isAnimating
    /\ \A f \in frames : f.id = animationFrameId

\* A replay that was paused, resumed and filtered, with a team hovered,
\* after a frame has run.
C31_Witness ==
  /\ Playing
  /\ lastOp = "animationFrame"
  /\ hoveredTeamIndex # Null
  /\ currentTeamStatusFilter = "chopped"
  /\ 0 < currentAnimationProgress
  /\ currentAnimationProgress < now
  /\ Cardinality(frames) = 1

\* The module state after renderFABSpendingView runs again on it: the
\* controller is reset to Idle and the callbacks pending stay pending.
reloaded == renderFABSpendingView(moduleState, cache)

\* The frame callback f of the replay that was under way, run after that.
lateFrame(f) == animate([reloaded EXCEPT !.frames = @ \ {f}], f.startTime, now)

targetWeekOfCall == Q(renderedMaxWeek * callArgs.animationProgress, REPLAY_DURATION_MS)

recordedPoints(line) == numberPoints(timelineOfLine(line).points)

\* How many of the points shown are the recorded points of the timeline, in
\* their order from the first.
recordedShown(line) ==
  Cardinality({i \in 1..Min(Len(line.visiblePoints), Len(recordedPoints(line))) :
                 \A j \in 1..i : line.visiblePoints[j] = recordedPoints(line)[j]})

\* The length of the longest prefix of the recorded points that lies at or
\* before the position T.
prefixWithin(points, T) ==
  Cardinality({i \in DOMAIN points : \A j \in 1..i : qLe(weekWithProgress(points[j]), T)})

\* C33 as stated: at every progress, the recorded points shown for a line
\* are at or before maxWeek * progress, and they are exactly the prefix of
\* the timeline's points that is.
C33_ShownIsPrefixWithinTarget ==
  rendered =>
    \A k \in DOMAIN callResult.geometry :
      LET line == callResult.geometry[k]
      IN /\ \A i \in 1..recordedShown(line) :
              qLe(weekWithProgress(recordedPoints(line)[i]), targetWeekOfCall)
         /\ recordedShown(line) = prefixWithin(recordedPoints(line), targetWeekOfCall)

\* The points shown after the recorded ones.
shownAfterRecorded(line) ==
  SubSeq(line.visiblePoints, recordedShown(line) + 1, Len(line.visiblePoints))

\* T lies strictly between the recorded points i and i + 1.
strictlyBetween(points, i, T) ==
  /\ qLt(weekWithProgress(points[i]), T)
  /\ qLt(T, weekWithProgress(points[i + 1]))

\* p is at position T and its value is the linear interpolation between
\* the points a and b, whose positions differ by a positive amount.
interpolatedAt(p, a, b, T) ==
  LET weekDiff == qSub(weekWithProgress(b), weekWithProgress(a))
  IN /\ weekWithProgress(p) = T
     /\ p.week = qFloor(T)
     /\ qLt(Q(0, 1), weekDiff)
     /\ p.fab = qAdd(a.fab, qDiv(qMul(qSub(b.fab, a.fab), qSub(T, weekWithProgress(a))),
                                 weekDiff))
     /\ qLe(qMin(a.fab, b.fab), p.fab) /\ qLe(p.fab, qMax(a.fab, b.fab))

\* C34 as stated: when maxWeek * progress lies strictly between two
\* consecutive recorded points of a line, the recorded points shown are
\* followed by exactly one point, at that position, interpolated between
\* the two; when it does not, and the progress is below 1.0, the recorded
\* points shown are followed by nothing.
C34_PartialPointIffStrictlyBetween ==
  rendered =>
    \A k \in DOMAIN callResult.geometry :
      LET line == callResult.geometry[k]
          points == recordedPoints(line)
          T == targetWeekOfCall
          gaps == {i \in 1..(Len(points) - 1) : strictlyBetween(points, i, T)}
      IN /\ \A i \in gaps :
              /\ Len(shownAfterRecorded(line)) = 1
              /\ interpolatedAt(shownAfterRecorded(line)[1], points[i], points[i + 1], T)
         /\ (gaps = {} /\ ~atFullProgress) => shownAfterRecorded(line) = <<>>

(***************************************************************************)
(* Completion of a replay (SpecPlayback).                                  *)
(***************************************************************************)
replayComplete == Idle /\ ~isAnimating /\ currentAnimationProgress = REPLAY_DURATION_MS

\* C35 as stated: when pending frame callbacks are run and the clock
\* advances, a replay under way leads to Idle at progress 1.0 unless it is
\* paused, whatever filter changes restart its frame loop on the way.
C35_PlayingLeadsToIdle ==
  (Playing /\ isAnimating) ~> (replayComplete \/ Paused)

(***************************************************************************)
(* The states of the replay controller (SpecReplay).                       *)
(***************************************************************************)
\* C36: whenever the controller is Idle, the static view with neither flag
\* set, the current progress is 1.0 and so is that of the chart shown; and
\* whenever it is Paused the current progress is the progress recorded at
\* the pause, is that of the chart shown, and is below 1.0.
C36_ProgressOfIdleAndPaused ==
  /\ Idle =>
       /\ ~isAnimating /\ ~isPaused
       /\ currentAnimationProgress = REPLAY_DURATION_MS
       /\ ~chart.empty => chart.animationProgress = REPLAY_DURATION_MS
  /\ Paused =>
       /\ isPaused /\ ~isAnimating
       /\ currentAnimationProgress = pausedProgress
       /\ currentAnimationProgress < REPLAY_DURATION_MS
       /\ ~chart.empty => chart.animationProgress = pausedProgress

\* A replay paused in its last quarter, the pointer then taken off the
\* chart.
C36_Witness ==
  /\ Paused
  /\ lastOp = "mouseleave"
  /\ pausedProgress = REPLAY_DURATION_MS - 1
  /\ now > REPLAY_DURATION_MS

\* The branch of startReplay that resumes a paused replay: if (isAnimating)
\* { if (isPaused) resumeReplay(...) }.
resumeBranchOfStart == isAnimating /\ isPaused

\* C37: isAnimating and isPaused are never both set; once the data is
\* loaded the controller is in exactly one of Idle (neither flag), Playing
\* (isAnimating) and Paused (isPaused); and startReplay never takes its
\* resume branch.
C37_FlagsExclusive ==
  /\ ~(isAnimating /\ isPaused)
  /\ hasControls =>
       /\ Idle <=> (~isAnimating /\ ~isPaused)
       /\ Playing <=> isAnimating
       /\ Paused <=> isPaused
  /\ ~resumeBranchOfStart

\* A replay that is behind its clock, after a pause or a restart, and is
\* restarted by a change of the team status filter.
C37_Witness ==
  /\ Playing /\ isAnimating /\ ~isPaused
  /\ lastOp = "teamStatusFilter"
  /\ currentTeamStatusFilter = "chopped"
  /\ currentAnimationProgress > 0
  /\ now > currentAnimationProgress + 1

\* What a filter change leaves as it was when no replay is running: all
\* but the two filters, the chart and the history.
keptByFilterChange ==
  UNCHANGED <<cache, baseTimelines, container, isAnimating, isPaused, animationFrameId,
              pausedProgress, currentAnimationProgress, hoveredTeamIndex, staticMaxWeek,
              teamColorMap, frames, now, callVars>>

\* The chart of the timelines under the new filters at progress p.
chartUnderNewFilters(p) ==
  renderChart(filterTimelinesForView(baseTimelines, currentFilter', currentTeamStatusFilter'),
              p, moduleState')

\* C38: a filter change in Paused ends Paused at the progress recorded,
\* with no frame pending and the chart that of the newly filtered
\* timelines at that progress; a filter change in Idle ends Idle at
\* progress 1.0 with the chart of the newly filtered timelines at 1.0. In
\* both only the filter clicked and the chart change.
C38_FilterWhenNotPlaying ==
  [][/\ (Paused /\ filterStep) =>
          /\ Paused' /\ isPaused' /\ ~isAnimating'
          /\ pausedProgress' = pausedProgress
          /\ currentAnimationProgress' = pausedProgress
          /\ frames' = {}
          /\ chart' = chartUnderNewFilters(pausedProgress)
          /\ keptByFilterChange
     /\ (Idle /\ filterStep) =>
          /\ Idle' /\ ~isPaused' /\ ~isAnimating'
          /\ currentAnimationProgress' = REPLAY_DURATION_MS
          /\ frames' = {}
          /\ chart' = chartUnderNewFilters(REPLAY_DURATION_MS)
          /\ keptByFilterChange
     /\ ((Paused \/ Idle) /\ filterStep) =>
          /\ lastOp' = "leagueFilter" => currentTeamStatusFilter' = currentTeamStatusFilter
          /\ lastOp' = "teamStatusFilter" => currentFilter' = currentFilter]_vars

\* Paused in the middle of a replay with the still-active teams of both
\* leagues shown after a change of the team status filter.
C38_Witness ==
  /\ Paused
  /\ lastOp = "teamStatusFilter"
  /\ currentTeamStatusFilter = "remaining"
  /\ currentFilter = "both"
  /\ 0 < pausedProgress /\ pausedProgress < REPLAY_DURATION_MS
  /\ chart.animationProgress = pausedProgress
  /\ Len(chart.lines) = 2

(***************************************************************************)
(* The status views (SpecView).                                            *)
(***************************************************************************)
\* The view of the loaded timelines under a league scope and a status.
viewOf(leagueFilter, teamStatusFilter) ==
  filterTimelinesForView(baseTimelines, leagueFilter, teamStatusFilter)

teamsOf(view) == {teamKeyOf(view[k]) : k \in DOMAIN view}

\* The roster of a timeline, as the cache has it, carries the property
\* settings.eliminated.
rosterHasEliminated(t) ==
  \E i \in DOMAIN cache.rosters[t.leagueId] :
    LET r == cache.rosters[t.leagueId][i]
    IN r.roster_id = t.rosterId /\ Has(r, "settings") /\ Has(r.settings, "eliminated")

\* C39: for the timelines loaded and every league scope, no team is in
\* both the 'remaining' and the 'chopped' view, the two together hold the
\* teams of the 'all' view, each once, and every team of 'remaining' is
\* one whose roster is not eliminated.
C39_StatusViewsPartitionAll ==
  loaded =>
    \A leagueFilter \in {"both", LEAGUE_IDS[1], LEAGUE_IDS[2]} :
      LET all == viewOf(leagueFilter, "all")
          remaining == viewOf(leagueFilter, "remaining")
          chopped == viewOf(leagueFilter, "chopped")
      IN /\ teamsOf(remaining) \cap teamsOf(chopped) = {}
         /\ teamsOf(remaining) \cup teamsOf(chopped) = teamsOf(all)
         /\ Len(remaining) + Len(chopped) = Len(all)
         /\ Cardinality(teamsOf(all)) = Len(all)
         /\ \A k \in DOMAIN remaining :
              ~remaining[k].isEliminated /\ ~rosterHasEliminated(remaining[k])

\* Two leagues that each have a still-active and an eliminated team, with
\* the still-active ones of one league shown.
C39_Witness ==
  /\ loaded
  /\ Len(baseTimelines) = 4
  /\ currentFilter = LEAGUE_IDS[1]
  /\ currentTeamStatusFilter = "remaining"
  /\ lastOp = "leagueFilter"
  /\ Len(viewOf(currentFilter, "remaining")) = 1
  /\ Len(viewOf(currentFilter, "chopped")) = 1
  /\ Len(chart.lines) = 1

(***************************************************************************)
(* The bounds of the points (SpecChart).                                   *)
(***************************************************************************)
\* week >= 0 and 0 <= weekProgress <= 1 for a point of a reconstructed
\* timeline, whose weekProgress is a numerator over weekDurationMs.
recordedInBounds(p) ==
  p.week >= 0 /\ 0 <= p.weekProgress /\ p.weekProgress <= weekDurationMs

\* The same for a point of a line drawn.
shownInBounds(p) ==
  p.week >= 0 /\ qLe(Q(0, 1), p.weekProgress) /\ qLe(p.weekProgress, Q(1, 1))

\* C40: every point of every timeline reconstructed from the cache has
\* week >= 0 and weekProgress in [0,1], whatever the timestamp of its
\* transaction, and so has every point of every line drawn from them, the
\* interpolated point and the point added at full progress included.
C40_PointsInBounds ==
  /\ \A i \in DOMAIN callArgs.timelines :
       \A j \in DOMAIN callArgs.timelines[i].points :
         recordedInBounds(callArgs.timelines[i].points[j])
  /\ rendered =>
       \A k \in DOMAIN callResult.geometry :
         \A j \in DOMAIN callResult.geometry[k].visiblePoints :
           shownInBounds(callResult.geometry[k].visiblePoints[j])

\* A chart below full progress with a line that ends in an interpolated
\* point, drawn from timelines that have a point clamped to the end of its
\* week and a point clamped to the start of its week.
C40_Witness ==
  /\ rendered /\ ~atFullProgress
  /\ \E i \in DOMAIN callArgs.timelines :
       \E j \in DOMAIN callArgs.timelines[i].points :
         LET p == callArgs.timelines[i].points[j]
         IN p.weekProgress = weekDurationMs /\ p.timestamp > weekStartMs(p.week + 1)
  /\ \E i \in DOMAIN callArgs.timelines :
       \E j \in DOMAIN callArgs.timelines[i].points :
         LET p == callArgs.timelines[i].points[j]
         IN p.week = 2 /\ p.weekProgress = 0 /\ p.timestamp < weekStartMs(p.week)
  /\ \E k \in DOMAIN callResult.geometry :
       LET line == callResult.geometry[k]
       IN /\ Len(shownAfterRecorded(line)) = 1
          /\ qLt(Q(0, 1), lastOf(line.visiblePoints).weekProgress)

====
